---- MODULE Spec2Model ----
(***************************************************************************)
(* Model of the game-platform server: the JSON store (database.py), the    *)
(* session layer (auth.py), the room registry, play counts and ratings     *)
(* (game_manager.py) and the handle map of the runtime supervisor          *)
(* (game_runtime.py).                                                      *)
(*                                                                         *)
(* Time is counted in ticks of half a second, so that time.time() (a       *)
(* float) and int(time.time()) (whole seconds) are different values.       *)
(* Messages and reasons, which the code builds as f-strings, are tuples:   *)
(* a tag followed by the names the string embeds.                          *)
(***************************************************************************)
EXTENDS Integers, Sequences, FiniteSets, TLC

VARIABLES
  data,        \* Database.data: the store document
  processes,   \* game_runtime.processes: room id -> handle of the spawned child
  now,         \* the wall clock, in ticks
  lock,        \* Database.lock: the thread holding it, or NoThread
  pending,     \* per request thread: the store call it is in the middle of
  env,         \* os.environ: the configuration the server was started with
  watched,     \* the handlers whose replies are recorded in result
  result,      \* the last reply of a watched handler
  played_log,  \* history: the successful mark_room_played calls
  disk,        \* the file at Database.path
  held,        \* per request thread: what it holds outside the store's lock
  machine      \* the host outside the server process: the extract directory,
               \* the child processes and the listening ports

vars ==
  <<data, processes, now, lock, pending, env, watched, result, played_log, disk, held,
    machine>>

-----------------------------------------------------------------------------
\* Bounds of the model

PlayerNames == {"bob", "carol", "dave"}
GameIds == {"dice", "ghost"}
Threads == {1, 2}
Ports == {7001, 7002}
Scores == {0, 1, 5, 6}
Comments == {"", "fun"}
Usernames == {"", "alice"}
Passwords == {"", "pw", "bad"}
MaxRoomId == 2
Developers == {"alice", "eve"}
GameNames == {"Dice", "Ghost!"}
Versions == {"1.0.0", "1.1.0"}
GameTypes == {"", "card"}

-----------------------------------------------------------------------------
\* Program constants

TicksPerSecond == 2
ROOM_HEARTBEAT_TIMEOUT == 15
FINISHED_ROOM_GRACE_SECONDS == 30
SESSION_TIMEOUT == 3600
CONCURRENT_LOGIN_LOCK == 30
StartTick == 2
NoTime == -1

NoThread == 0
None == <<>>
EmptyMap == [x \in {} |-> x]
NoServer == [host |-> "", port |-> 0]
PlatformServer == [host |-> "127.0.0.1", port |-> 5000]
PublicHost == "linux1.cs.nycu.edu.tw"

Sec(n) == n * TicksPerSecond
\* int(time.time()): truncation to whole seconds
int(t) == (t \div TicksPerSecond) * TicksPerSecond

-----------------------------------------------------------------------------
\* Helpers over Python lists and dicts

Range(s) == {s[i] : i \in DOMAIN s}
Without(s, S) == SelectSeq(s, LAMBDA x : x \notin S)
Put(f, k, v) == [x \in DOMAIN f \cup {k} |-> IF x = k THEN v ELSE f[x]]
Pop(f, S) == [x \in DOMAIN f \ S |-> f[x]]
Get(f, k, default) == IF k \in DOMAIN f THEN f[k] ELSE default

Ret(d, ok, msg, stopped) == [data |-> d, ok |-> ok, msg |-> msg, stopped |-> stopped]

-----------------------------------------------------------------------------
\* The store document

DEFAULT_DATA ==
  [developers |-> EmptyMap, players |-> EmptyMap, games |-> EmptyMap,
   rooms |-> EmptyMap, ratings |-> EmptyMap,
   sessions |-> [developer |-> EmptyMap, player |-> EmptyMap],
   next_ids |-> [room |-> 1, rating |-> 1]]

DiceGame ==
  [id |-> "dice", name |-> "Dice", developer |-> "alice", game_type |-> "custom",
   min_players |-> 2, max_players |-> 2, active |-> TRUE,
   versions |-> <<[version |-> "1.0.0", uploaded_at |-> int(StartTick)]>>,
   latest_version |-> "1.0.0", ratings |-> <<>>]

\* The document after alice registered as developer and uploaded Dice, and the
\* players registered: register (auth.py) and create_game leave exactly this.
PopulatedData ==
  [DEFAULT_DATA EXCEPT
     !.developers = [u \in {"alice"} |-> [password |-> "pw", games |-> <<"dice">>]],
     !.players = [u \in PlayerNames |-> [password |-> "pw", played_games |-> EmptyMap]],
     !.games = [g \in {"dice"} |-> DiceGame]]

-----------------------------------------------------------------------------
\* game_manager.py: the catalogue

\* What _validate_upload makes of an uploaded archive: a refusal, or the
\* manifest it read (players counts positive, min_players <= max_players). A
\* manifest that passes has exactly the keys entry, server_entry, min_players
\* and max_players, so manifest.get("type") is always None (here "").
Uploads ==
  {[ok |-> FALSE, type |-> "", min_players |-> 0, max_players |-> 0],
   [ok |-> TRUE, type |-> "", min_players |-> 2, max_players |-> 2],
   [ok |-> TRUE, type |-> "", min_players |-> 1, max_players |-> 2]}

\* re.sub(r"[^a-zA-Z0-9]+", "-", name.strip().lower()).strip("-") or "game", on
\* the names of GameNames
_slugify(name) ==
  CASE name = "Dice" -> "dice"
    [] name = "Ghost!" -> "ghost"
    [] OTHER -> "game"

create_game(d, developer, name, version, upload, game_type, t) ==
  LET slug == _slugify(name)
      resolved_type == IF game_type # "" THEN game_type
                       ELSE IF upload.type # "" THEN upload.type ELSE "custom"
  IN
  IF ~upload.ok THEN Ret(d, FALSE, <<"invalid_upload">>, {})
  ELSE IF game_type # "" /\ upload.type # "" /\ game_type # upload.type
  THEN Ret(d, FALSE, <<"type_mismatch">>, {})
  ELSE IF developer \notin DOMAIN d.developers
  THEN Ret(d, FALSE, <<"developer_missing">>, {})
  ELSE IF slug \in DOMAIN d.games THEN Ret(d, FALSE, <<"name_taken">>, {})
  ELSE
    LET game_info ==
          [id |-> slug, name |-> name, developer |-> developer,
           game_type |-> resolved_type,
           min_players |-> upload.min_players, max_players |-> upload.max_players,
           active |-> TRUE,
           versions |-> <<[version |-> version, uploaded_at |-> int(t)]>>,
           latest_version |-> version, ratings |-> <<>>]
    IN  Ret([d EXCEPT !.games = Put(d.games, slug, game_info),
                      !.developers[developer].games = Append(@, slug)],
            TRUE, <<"published">>, {})

\* An update that takes a version string the game already has
UpdateRefusal_AnyVersion(d, developer, game_id, version, upload) ==
  IF game_id \notin DOMAIN d.games THEN <<"game_missing">>
  ELSE LET game == d.games[game_id] IN
    IF game.developer # developer THEN <<"not_owner">>
    ELSE IF ~game.active THEN <<"game_inactive">>
    ELSE IF upload.type # "" /\ game.game_type # "" /\ upload.type # game.game_type
    THEN <<"type_mismatch">>
    ELSE IF \/ upload.min_players # game.min_players
            \/ upload.max_players # game.max_players
    THEN <<"players_mismatch">>
    ELSE None

\* The checks of _update, in the order of the code; None when the version is
\* appended
UpdateRefusal(d, developer, game_id, version, upload) ==
  IF game_id \notin DOMAIN d.games THEN <<"game_missing">>
  ELSE LET game == d.games[game_id] IN
    IF game.developer # developer THEN <<"not_owner">>
    ELSE IF ~game.active THEN <<"game_inactive">>
    ELSE IF upload.type # "" /\ game.game_type # "" /\ upload.type # game.game_type
    THEN <<"type_mismatch">>
    ELSE IF \/ upload.min_players # game.min_players
            \/ upload.max_players # game.max_players
    THEN <<"players_mismatch">>
    ELSE IF \E i \in DOMAIN game.versions : game.versions[i].version = version
    THEN <<"version_exists">>
    ELSE None

\* An update that also moves the game's waiting rooms to the new version
update_game_version_Repins(d, developer, game_id, version, upload, t) ==
  IF ~upload.ok THEN Ret(d, FALSE, <<"invalid_upload">>, {})
  ELSE
    LET refusal == UpdateRefusal(d, developer, game_id, version, upload) IN
    IF refusal # None THEN Ret(d, FALSE, refusal, {})
    ELSE Ret([d EXCEPT !.games[game_id] =
                [d.games[game_id] EXCEPT
                   !.versions = Append(@, [version |-> version, uploaded_at |-> int(t)]),
                   !.latest_version = version],
                !.rooms = [rid \in DOMAIN d.rooms |->
                             IF d.rooms[rid].game_id = game_id /\ d.rooms[rid].status = "waiting"
                             THEN [d.rooms[rid] EXCEPT !.version = version]
                             ELSE d.rooms[rid]]],
             TRUE, <<"updated">>, {})

update_game_version(d, developer, game_id, version, upload, t) ==
  IF ~upload.ok THEN Ret(d, FALSE, <<"invalid_upload">>, {})
  ELSE
    LET refusal == UpdateRefusal(d, developer, game_id, version, upload) IN
    IF refusal # None THEN Ret(d, FALSE, refusal, {})
    ELSE Ret([d EXCEPT !.games[game_id] =
                [d.games[game_id] EXCEPT
                   !.versions = Append(@, [version |-> version, uploaded_at |-> int(t)]),
                   !.latest_version = version]],
             TRUE, <<"updated">>, {})

\* A removal that anyone may ask for
RemoveRefusal_AnyCaller(d, developer, game_id) ==
  IF game_id \notin DOMAIN d.games THEN <<"game_missing">> ELSE None

\* The checks of _remove; None when the game is delisted
RemoveRefusal(d, developer, game_id) ==
  IF game_id \notin DOMAIN d.games THEN <<"game_missing">>
  ELSE IF d.games[game_id].developer # developer THEN <<"not_owner">>
  ELSE None

\* The rooms _remove counts: of the game and not finished, as stored
active_room_count(d, game_id) ==
  Cardinality({rid \in DOMAIN d.rooms :
                 d.rooms[rid].game_id = game_id /\ d.rooms[rid].status # "finished"})

\* The reply names the count only when it is not zero
remove_game(d, developer, game_id, t) ==
  LET refusal == RemoveRefusal(d, developer, game_id)
      n == active_room_count(d, game_id)
  IN
  IF refusal # None THEN Ret(d, FALSE, refusal, {})
  ELSE Ret([d EXCEPT !.games[game_id] =
              Put(Put(Put(d.games[game_id], "active", FALSE),
                      "accept_new_rooms", FALSE),
                  "deactivated_at", int(t))],
           TRUE, IF n > 0 THEN <<"delisted", n>> ELSE <<"delisted">>, {})

-----------------------------------------------------------------------------
\* game_manager.py: rooms

_touch_room_heartbeat(room, player, t) ==
  [room EXCEPT !.heartbeats = Put(room.heartbeats, player, t)]

Finish(room, t, reason) ==
  [room EXCEPT !.status = "finished", !.ended_at = int(t), !.ended_reason = reason]

\* A heartbeat that counts as stale from the timeout on
Stale_Inclusive(ts, t) == t - ts >= Sec(ROOM_HEARTBEAT_TIMEOUT)

\* The test of the stale_players comprehension
Stale(ts, t) == t - ts > Sec(ROOM_HEARTBEAT_TIMEOUT)

\* One iteration of the loop of _cleanup_rooms over a room that stays stored
CleanRoom(room, t) ==
  IF room.status = "finished" THEN room
  ELSE
    LET seeded == [p \in DOMAIN room.heartbeats \cup Range(room.players) |->
                     Get(room.heartbeats, p, room.created_at)]
        hb == [room EXCEPT !.heartbeats = seeded]
        stale == {p \in DOMAIN seeded : Stale(seeded[p], t)}
        stale_players == SelectSeq(room.players, LAMBDA p : p \in stale)
    IN  IF stale = {} THEN hb
        ELSE IF room.status = "waiting"
        THEN IF room.host \in stale
             THEN Finish(hb, t, <<"host_timeout", room.host>>)
             ELSE [hb EXCEPT !.players = Without(room.players, stale),
                             !.heartbeats = Pop(seeded, stale)]
        ELSE Finish(hb, t, <<"players_timeout">> \o stale_players)

\* A grace period that ends at FINISHED_ROOM_GRACE_SECONDS sharp
GraceExpired_Inclusive(room, t) ==
  /\ room.status = "finished"
  /\ t - room.ended_at >= Sec(FINISHED_ROOM_GRACE_SECONDS)

GraceExpired(room, t) ==
  /\ room.status = "finished"
  /\ t - room.ended_at > Sec(FINISHED_ROOM_GRACE_SECONDS)

_cleanup_rooms(d, t) ==
  LET keep == {rid \in DOMAIN d.rooms : ~GraceExpired(d.rooms[rid], t)}
  IN  [d EXCEPT !.rooms = [rid \in keep |-> CleanRoom(d.rooms[rid], t)]]

\* A GC pass that stops the children of the rooms it deletes only
CleanupStops_DeletedOnly(d, t) ==
  {rid \in DOMAIN d.rooms : GraceExpired(d.rooms[rid], t)}

\* The rooms for which _cleanup_rooms calls game_runtime.stop_game_server
CleanupStops(d, t) ==
  {rid \in DOMAIN d.rooms :
     \/ GraceExpired(d.rooms[rid], t)
     \/ /\ d.rooms[rid].status # "finished"
        /\ CleanRoom(d.rooms[rid], t).status = "finished"}

NewRoom(room_id, game, host, t) ==
  _touch_room_heartbeat(
    [id |-> room_id, game_id |-> game.id, version |-> game.latest_version,
     host |-> host, players |-> <<host>>,
     max_players |-> game.max_players, min_players |-> game.min_players,
     status |-> "waiting", created_at |-> int(t), heartbeats |-> EmptyMap,
     ended_reason |-> None, ended_at |-> NoTime, started_at |-> NoTime,
     game_server |-> NoServer, played_counted |-> FALSE,
     played_counted_at |-> NoTime],
    host, t)

create_room(d, host, game_id, t, max_rooms) ==
  IF game_id \notin DOMAIN d.games \/ ~d.games[game_id].active
  THEN Ret(d, FALSE, <<"game_missing_or_inactive">>, {})
  ELSE IF ~Get(d.games[game_id], "accept_new_rooms", TRUE)
  THEN Ret(d, FALSE, <<"game_not_accepting_rooms">>, {})
  ELSE IF host \notin DOMAIN d.players
  THEN Ret(d, FALSE, <<"player_missing">>, {})
  ELSE IF max_rooms > 0 /\ Cardinality(DOMAIN d.rooms) >= max_rooms
  THEN Ret(d, FALSE, <<"room_cap">>, {})
  ELSE
    LET room_id == d.next_ids.room
        room == NewRoom(room_id, d.games[game_id], host, t)
    IN  Ret([d EXCEPT !.next_ids.room = @ + 1,
                      !.rooms = Put(d.rooms, room_id, room)],
            TRUE, <<"room_created">>, {})

\* _join with its capacity check off by one
JoinRefusal_OffByOne(d, player, room_id) ==
  IF room_id \notin DOMAIN d.rooms THEN <<"room_missing">>
  ELSE LET room == d.rooms[room_id] IN
    IF room.status # "waiting"
    THEN IF room.status = "finished" THEN room.ended_reason
         ELSE <<"already_started">>
    ELSE IF room.game_id \notin DOMAIN d.games THEN <<"game_missing">>
    ELSE IF player \notin DOMAIN d.players THEN <<"player_missing">>
    ELSE IF player \in Range(room.players) THEN <<"already_in_room">>
    ELSE IF Len(room.players) > d.games[room.game_id].max_players
    THEN <<"room_full">>
    ELSE None

\* The body of _join up to its last check: the refusal, or None when the player
\* may be appended. d is the document after the GC pass.
\* _join without its check of who is in the room already
JoinRefusal_Rejoin(d, player, room_id) ==
  IF room_id \notin DOMAIN d.rooms THEN <<"room_missing">>
  ELSE LET room == d.rooms[room_id] IN
    IF room.status # "waiting"
    THEN IF room.status = "finished" THEN room.ended_reason
         ELSE <<"already_started">>
    ELSE IF room.game_id \notin DOMAIN d.games THEN <<"game_missing">>
    ELSE IF player \notin DOMAIN d.players THEN <<"player_missing">>
    ELSE IF Len(room.players) >= d.games[room.game_id].max_players
    THEN <<"room_full">>
    ELSE None

JoinRefusal(d, player, room_id) ==
  IF room_id \notin DOMAIN d.rooms THEN <<"room_missing">>
  ELSE LET room == d.rooms[room_id] IN
    IF room.status # "waiting"
    THEN IF room.status = "finished" THEN room.ended_reason
         ELSE <<"already_started">>
    ELSE IF room.game_id \notin DOMAIN d.games THEN <<"game_missing">>
    ELSE IF player \notin DOMAIN d.players THEN <<"player_missing">>
    ELSE IF player \in Range(room.players) THEN <<"already_in_room">>
    ELSE IF Len(room.players) >= d.games[room.game_id].max_players
    THEN <<"room_full">>
    ELSE None

\* A join that leaves the heartbeat map alone
JoinAppend_NoBeat(d, player, room_id, t) ==
  [d EXCEPT !.rooms[room_id].players = Append(@, player)]

\* The two statements of _join that follow the checks
JoinAppend(d, player, room_id, t) ==
  [d EXCEPT !.rooms[room_id] =
     _touch_room_heartbeat([@ EXCEPT !.players = Append(@, player)], player, t)]

join_room(d0, player, room_id, t) ==
  LET d == _cleanup_rooms(d0, t)
      gc == CleanupStops(d0, t)
      refusal == JoinRefusal(d, player, room_id)
  IN  IF refusal # None THEN Ret(d, FALSE, refusal, gc)
      ELSE Ret(JoinAppend(d, player, room_id, t), TRUE, <<"joined">>, gc)

\* A leave that closes the room whoever leaves
LeaveCloses_Always(room, player) == TRUE

\* Only a leave of a waiting room by somebody other than the host keeps the room
LeaveCloses(room, player) == ~(room.status = "waiting" /\ player # room.host)

leave_room(d0, player, room_id, t) ==
  LET d == _cleanup_rooms(d0, t)
      gc == CleanupStops(d0, t)
  IN
  IF room_id \notin DOMAIN d.rooms THEN Ret(d, FALSE, <<"room_missing">>, gc)
  ELSE LET room == d.rooms[room_id] IN
    IF room.status = "finished" THEN Ret(d, FALSE, room.ended_reason, gc)
    ELSE IF player \notin Range(room.players)
    THEN Ret(d, FALSE, <<"not_in_room">>, gc)
    ELSE IF ~LeaveCloses(room, player)
    THEN Ret([d EXCEPT !.rooms[room_id] =
                [room EXCEPT !.players = Without(room.players, {player}),
                             !.heartbeats = Pop(room.heartbeats, {player})]],
             TRUE, <<"left_room">>, gc)
    ELSE Ret([d EXCEPT !.rooms[room_id] =
                Finish([room EXCEPT !.players = Without(room.players, {player})], t,
                       IF player = room.host THEN <<"host_left", player>>
                       ELSE <<"left", player>>)],
             TRUE, <<"room_closed">>, gc \cup {room_id})

\* A heartbeat that a finished room accepts
BeatRefusal_FinishedBeats(d, room_id, player) ==
  IF room_id \notin DOMAIN d.rooms THEN <<"room_missing_or_closed">>
  ELSE IF player \notin Range(d.rooms[room_id].players) THEN <<"not_in_room">>
  ELSE None

\* The checks of _beat, in the order of the code; None when the heartbeat is
\* recorded
BeatRefusal(d, room_id, player) ==
  IF room_id \notin DOMAIN d.rooms THEN <<"room_missing_or_closed">>
  ELSE IF player \notin Range(d.rooms[room_id].players) THEN <<"not_in_room">>
  ELSE IF d.rooms[room_id].status = "finished" THEN d.rooms[room_id].ended_reason
  ELSE None

room_heartbeat(d0, room_id, player, t) ==
  LET d == _cleanup_rooms(d0, t)
      gc == CleanupStops(d0, t)
      refusal == BeatRefusal(d, room_id, player)
  IN
  IF refusal # None THEN Ret(d, FALSE, refusal, gc)
  ELSE Ret([d EXCEPT !.rooms[room_id] = _touch_room_heartbeat(d.rooms[room_id], player, t)],
           TRUE, <<"ok">>, gc)

\* list_rooms: the reply lists the rooms left after the GC pass that are not finished
list_rooms(d0, t) ==
  LET d == _cleanup_rooms(d0, t)
  IN  Ret(d, TRUE,
          <<"rooms", {rid \in DOMAIN d.rooms : d.rooms[rid].status # "finished"}>>,
          CleanupStops(d0, t))

get_room(d0, room_id, t) ==
  LET d == _cleanup_rooms(d0, t)
      gc == CleanupStops(d0, t)
  IN  IF room_id \notin DOMAIN d.rooms THEN Ret(d, FALSE, <<"room_missing">>, gc)
      ELSE Ret(d, TRUE, <<"room", d.rooms[room_id].status>>
                          \o d.rooms[room_id].ended_reason, gc)

\* A close that only the host may ask for
CloseRefusal_HostOnly(d, room_id, player) ==
  IF room_id \notin DOMAIN d.rooms THEN <<"room_missing">>
  ELSE IF player # d.rooms[room_id].host THEN <<"not_in_room">>
  ELSE IF d.rooms[room_id].status = "finished" THEN d.rooms[room_id].ended_reason
  ELSE None

\* _close without its check of a room that is finished already
CloseRefusal_Reclose(d, room_id, player) ==
  IF room_id \notin DOMAIN d.rooms THEN <<"room_missing">>
  ELSE IF player \notin Range(d.rooms[room_id].players) THEN <<"not_in_room">>
  ELSE None

\* The checks of _close, in the order of the code; None when the close goes
\* ahead
CloseRefusal(d, room_id, player) ==
  IF room_id \notin DOMAIN d.rooms THEN <<"room_missing">>
  ELSE IF player \notin Range(d.rooms[room_id].players) THEN <<"not_in_room">>
  ELSE IF d.rooms[room_id].status = "finished" THEN d.rooms[room_id].ended_reason
  ELSE None

close_room(d0, room_id, player, t) ==
  LET d == _cleanup_rooms(d0, t)
      gc == CleanupStops(d0, t)
      refusal == CloseRefusal(d, room_id, player)
  IN
  IF refusal # None THEN Ret(d, FALSE, refusal, gc)
  ELSE Ret([d EXCEPT !.rooms[room_id] = Finish(d.rooms[room_id], t, <<"closed", player>>)],
           TRUE, <<"room_closed">>, gc \cup {room_id})

-----------------------------------------------------------------------------
\* game_runtime.py: the handle map. What the bundle holds and how the child
\* behaves is the environment's choice (outcome); the port is the one the
\* operating system assigned.

\* A stop that leaves the handle in the map
stop_game_server_Keeps(procs, room_id) == procs

stop_game_server(procs, room_id) == Pop(procs, {room_id})

\* How a start can end: what the bundle holds, what the child does, and for a
\* child that came up the port the operating system gave it. The port of a child
\* that never became reachable does not outlive the call.
StartOutcomes ==
  {[kind |-> k, port |-> CHOOSE p \in Ports : TRUE] :
     k \in {"no_manifest", "client_only", "missing_entry", "exited", "timeout"}}
  \cup {[kind |-> "ready", port |-> p] : p \in Ports}

start_game_server(procs, room_id, outcome) ==
  CASE outcome.kind = "no_manifest" ->
         [ok |-> FALSE, msg |-> <<"manifest_missing">>, server_info |-> NoServer,
          processes |-> procs]
    [] outcome.kind = "client_only" ->
         [ok |-> TRUE, msg |-> <<"no_game_server">>, server_info |-> NoServer,
          processes |-> procs]
    [] outcome.kind = "missing_entry" ->
         [ok |-> FALSE, msg |-> <<"server_entry_missing">>, server_info |-> NoServer,
          processes |-> procs]
    [] outcome.kind = "exited" ->
         [ok |-> FALSE, msg |-> <<"spawn_failed">>, server_info |-> NoServer,
          processes |-> stop_game_server(Put(procs, room_id, outcome.port), room_id)]
    [] outcome.kind = "timeout" ->
         [ok |-> FALSE, msg |-> <<"startup_timeout">>, server_info |-> NoServer,
          processes |-> stop_game_server(Put(procs, room_id, outcome.port), room_id)]
    [] OTHER ->
         [ok |-> TRUE, msg |-> <<"game_server_started">>,
          server_info |-> [host |-> PublicHost, port |-> outcome.port],
          processes |-> Put(procs, room_id, outcome.port)]

\* The handle map after the stop_game_server calls of a handler
StopAll(procs, stopped) == Pop(procs, stopped)

\* _start without its checks of the room's status
StartRefusal_AnyStatus(d, room_id, player) ==
  IF room_id \notin DOMAIN d.rooms THEN <<"room_missing">>
  ELSE LET room == d.rooms[room_id] IN
    IF room.game_id \notin DOMAIN d.games THEN <<"game_missing">>
    ELSE IF player # room.host THEN <<"not_host">>
    ELSE IF Len(room.players) < d.games[room.game_id].min_players
    THEN <<"not_enough_players">>
    ELSE None

\* _start without its check of the caller
StartRefusal_AnyCaller(d, room_id, player) ==
  IF room_id \notin DOMAIN d.rooms THEN <<"room_missing">>
  ELSE LET room == d.rooms[room_id] IN
    IF room.status = "finished" THEN room.ended_reason
    ELSE IF room.game_id \notin DOMAIN d.games THEN <<"game_missing">>
    ELSE IF room.status # "waiting" THEN <<"already_started">>
    ELSE IF Len(room.players) < d.games[room.game_id].min_players
    THEN <<"not_enough_players">>
    ELSE None

\* The checks of _start that precede the call of the runtime supervisor: the
\* refusal, or None. d is the document after the GC pass.
StartRefusal(d, room_id, player) ==
  IF room_id \notin DOMAIN d.rooms THEN <<"room_missing">>
  ELSE LET room == d.rooms[room_id] IN
    IF room.status = "finished" THEN room.ended_reason
    ELSE IF room.game_id \notin DOMAIN d.games THEN <<"game_missing">>
    ELSE IF room.status # "waiting" THEN <<"already_started">>
    ELSE IF player # room.host THEN <<"not_host">>
    ELSE IF Len(room.players) < d.games[room.game_id].min_players
    THEN <<"not_enough_players">>
    ELSE IF \A i \in DOMAIN d.games[room.game_id].versions :
               d.games[room.game_id].versions[i].version # room.version
    THEN <<"version_missing">>
    ELSE None

\* _start: version_rec, the first record of the room's game whose version is
\* the room's, or None
version_rec(d, room_id) ==
  LET room == d.rooms[room_id]
      versions == d.games[room.game_id].versions
      hits == {i \in DOMAIN versions : versions[i].version = room.version}
  IN  IF hits = {} THEN None
      ELSE versions[CHOOSE i \in hits : \A j \in hits : i <= j]

\* _start: the game, the version and the record whose path it passes to
\* game_runtime.start_game_server
Launched(d, room_id) ==
  [game_id |-> d.games[d.rooms[room_id].game_id].id,
   version |-> d.rooms[room_id].version,
   record |-> version_rec(d, room_id)]

\* start_room also returns the handle map as start_game_server left it
start_room(d0, procs0, room_id, player, t, outcome) ==
  LET d == _cleanup_rooms(d0, t)
      procs == StopAll(procs0, CleanupStops(d0, t))
      refusal == StartRefusal(d, room_id, player)
  IN
  IF refusal # None
  THEN [data |-> d, ok |-> FALSE, msg |-> refusal, processes |-> procs]
  ELSE
    LET room == d.rooms[room_id]
        s == start_game_server(procs, room_id, outcome)
        started == [room EXCEPT
                      !.status = "in_game",
                      !.started_at = int(t),
                      !.game_server = IF s.server_info # NoServer
                                      THEN s.server_info ELSE PlatformServer,
                      !.heartbeats = [p \in DOMAIN room.heartbeats
                                            \cup Range(room.players) |->
                                        IF p \in Range(room.players) THEN t
                                        ELSE room.heartbeats[p]]]
    IN  IF ~s.ok
        THEN [data |-> d, ok |-> FALSE, msg |-> s.msg, processes |-> s.processes]
        ELSE [data |-> [d EXCEPT !.rooms[room_id] = started], ok |-> TRUE,
              msg |-> <<"game_started">>, processes |-> s.processes]

-----------------------------------------------------------------------------
\* game_manager.py: play counts and ratings

played_count(d, player, game_id) ==
  IF player \in DOMAIN d.players
  THEN Get(d.players[player].played_games, game_id, 0) ELSE 0

_mark_played(d, player, game_id) ==
  LET info == Get(d.players, player, [played_games |-> EmptyMap])
      played == info.played_games
  IN  [d EXCEPT !.players =
         Put(d.players, player,
             [info EXCEPT !.played_games = Put(played, game_id, Get(played, game_id, 0) + 1)])]

\* for p in players: _mark_played(data, p, game_id)
RECURSIVE MarkPlayers(_, _, _)
MarkPlayers(d, players, game_id) ==
  IF players = <<>> THEN d
  ELSE MarkPlayers(_mark_played(d, Head(players), game_id), Tail(players), game_id)

\* _mark with its membership check left out
MarkRefusal_AnyCaller(d, room_id, player) ==
  IF room_id \notin DOMAIN d.rooms THEN <<"room_missing_or_closed">>
  ELSE IF d.rooms[room_id].status # "in_game" THEN <<"not_in_game">>
  ELSE None

\* The checks of _mark: the refusal, or None. d is the document after the GC pass.
MarkRefusal(d, room_id, player) ==
  IF room_id \notin DOMAIN d.rooms THEN <<"room_missing_or_closed">>
  ELSE IF d.rooms[room_id].status # "in_game" THEN <<"not_in_game">>
  ELSE IF player \notin Range(d.rooms[room_id].players) THEN <<"not_in_room">>
  ELSE None

\* A room whose flag is never read
played_counted_Ignored(room) == FALSE

\* room.get("played_counted")
played_counted(room) == room.played_counted

mark_room_played(d0, room_id, player, t) ==
  LET d == _cleanup_rooms(d0, t)
      gc == CleanupStops(d0, t)
      refusal == MarkRefusal(d, room_id, player)
  IN
  IF refusal # None THEN Ret(d, FALSE, refusal, gc)
  ELSE LET room == d.rooms[room_id] IN
    IF played_counted(room) THEN Ret(d, TRUE, <<"play_recorded">>, gc)
    ELSE
      LET counted == MarkPlayers(d, room.players, room.game_id)
      IN  Ret([counted EXCEPT !.rooms[room_id].played_counted = TRUE,
                              !.rooms[room_id].played_counted_at = int(t)],
              TRUE, <<"play_recorded">>, gc)

\* A loop of _add that finds nothing
ExistingRating_None(d, player, game_id) == 0

\* The rating of this player for this game that the loop of _add finds first
ExistingRating(d, player, game_id) ==
  LET listed == d.games[game_id].ratings
      hits == {i \in DOMAIN listed :
                 /\ listed[i] \in DOMAIN d.ratings
                 /\ d.ratings[listed[i]].player = player
                 /\ d.ratings[listed[i]].game_id = game_id}
  IN  IF hits = {} THEN 0
      ELSE listed[CHOOSE i \in hits : \A j \in hits : i <= j]

\* add_rating checks the score before it goes to the store
ScoreRefused(score) == score < 1 \/ score > 5

add_rating(d, player, game_id, score, comment, t) ==
  IF ScoreRefused(score) THEN Ret(d, FALSE, <<"score_out_of_range">>, {})
  ELSE IF player \notin DOMAIN d.players THEN Ret(d, FALSE, <<"player_missing">>, {})
  ELSE IF played_count(d, player, game_id) <= 0 THEN Ret(d, FALSE, <<"never_played">>, {})
  ELSE IF game_id \notin DOMAIN d.games THEN Ret(d, FALSE, <<"game_missing">>, {})
  ELSE IF ~d.games[game_id].active THEN Ret(d, FALSE, <<"game_inactive">>, {})
  ELSE
    LET existing_id == ExistingRating(d, player, game_id)
        rating_id == d.next_ids.rating
    IN  IF existing_id # 0
        THEN Ret([d EXCEPT !.ratings[existing_id].score = score,
                           !.ratings[existing_id].comment = comment,
                           !.ratings[existing_id].created_at = int(t)],
                 TRUE, <<"rating_updated">>, {})
        ELSE Ret([d EXCEPT !.next_ids.rating = @ + 1,
                           !.ratings = Put(d.ratings, rating_id,
                                           [id |-> rating_id, player |-> player,
                                            game_id |-> game_id, score |-> score,
                                            comment |-> comment, created_at |-> int(t)]),
                           !.games[game_id].ratings = Append(@, rating_id)],
                 TRUE, <<"rating_sent">>, {})

-----------------------------------------------------------------------------
\* auth.py: accounts and sessions

Roles == {"developer", "player"}

_get_table(user_type) == IF user_type = "developer" THEN "developers" ELSE "players"

_ensure_sessions(d) ==
  LET sessions == Get(d, "sessions", EmptyMap)
  IN  Put(d, "sessions",
          [r \in DOMAIN sessions \cup Roles |-> Get(sessions, r, EmptyMap)])

\* register refuses an empty name or password before it goes to the store
RegisterRefused(username, password) == username = "" \/ password = ""

register(d, user_type, username, password) ==
  LET table == _get_table(user_type)
      user == IF user_type = "developer"
              THEN [password |-> password, games |-> <<>>]
              ELSE [password |-> password, played_games |-> EmptyMap]
  IN  IF RegisterRefused(username, password)
      THEN Ret(d, FALSE, <<"empty_name_or_password">>, {})
      ELSE IF username \in DOMAIN d[table]
      THEN Ret(d, FALSE, <<"name_taken">>, {})
      ELSE Ret(_ensure_sessions([d EXCEPT ![table] = Put(@, username, user)]),
               TRUE, <<"registered", user_type>>, {})

\* A lock that also holds at exactly CONCURRENT_LOGIN_LOCK seconds
LoginLocked_Inclusive(sessions, username, t) ==
  /\ username \in DOMAIN sessions
  /\ sessions[username] # 0
  /\ t - sessions[username] <= Sec(CONCURRENT_LOGIN_LOCK)

\* last_seen and now - last_seen < CONCURRENT_LOGIN_LOCK
LoginLocked(sessions, username, t) ==
  /\ username \in DOMAIN sessions
  /\ sessions[username] # 0
  /\ t - sessions[username] < Sec(CONCURRENT_LOGIN_LOCK)

login(d0, user_type, username, password, t) ==
  LET table == _get_table(user_type)
      d == _ensure_sessions(d0)
  IN  IF username \notin DOMAIN d0[table] \/ d0[table][username].password # password
      THEN Ret(d0, FALSE, <<"bad_credentials">>, {})
      ELSE IF LoginLocked(d.sessions[user_type], username, t)
      THEN Ret(d, FALSE, <<"concurrent_login">>, {})
      ELSE Ret([d EXCEPT !.sessions[user_type] = Put(@, username, t),
                         ![table][username] = Put(@, "online", TRUE)],
               TRUE, <<"logged_in">>, {})

\* A logout that forgets to drop the session
logout_KeepsSession(d0, user_type, username) ==
  LET table == _get_table(user_type)
      d == _ensure_sessions(d0)
  IN  Ret(IF username \in DOMAIN d[table]
          THEN [d EXCEPT ![table][username] = Put(@, "online", FALSE)]
          ELSE d,
          TRUE, None, {})

\* logout returns nothing and swallows every exception
logout(d0, user_type, username) ==
  LET table == _get_table(user_type)
      d == _ensure_sessions(d0)
      popped == [d EXCEPT !.sessions[user_type] = Pop(@, {username})]
  IN  Ret(IF username \in DOMAIN d[table]
          THEN [popped EXCEPT ![table][username] = Put(@, "online", FALSE)]
          ELSE popped,
          TRUE, None, {})

\* An is_logged_in that renews the session it finds live, through db.update
is_logged_in_Sliding(d, user_type, username, t) ==
  LET sessions == Get(Get(d, "sessions", EmptyMap), user_type, EmptyMap)
      last_seen == Get(sessions, username, 0)
      live == last_seen # 0 /\ t - last_seen <= Sec(SESSION_TIMEOUT)
  IN  [data |-> IF live THEN [d EXCEPT !.sessions[user_type][username] = t] ELSE d,
       ok |-> live, flushed |-> TRUE]

\* is_logged_in reads a snapshot: data is the store's document after the call,
\* flushed whether the call wrote it to disk
is_logged_in(d, user_type, username, t) ==
  LET sessions == Get(Get(d, "sessions", EmptyMap), user_type, EmptyMap)
      last_seen == Get(sessions, username, 0)
  IN  [data |-> d,
       ok |-> last_seen # 0 /\ t - last_seen <= Sec(SESSION_TIMEOUT),
       flushed |-> FALSE]

\* A heartbeat that stores whole seconds, as the registry does for its stamps
heartbeat_Truncated(d0, user_type, username, t) ==
  LET d == _ensure_sessions(d0)
  IN  Ret(IF username \in DOMAIN d.sessions[user_type]
          THEN [d EXCEPT !.sessions[user_type][username] = int(t)]
          ELSE d,
          TRUE, None, {})

heartbeat(d0, user_type, username, t) ==
  LET d == _ensure_sessions(d0)
  IN  Ret(IF username \in DOMAIN d.sessions[user_type]
          THEN [d EXCEPT !.sessions[user_type][username] = t]
          ELSE d,
          TRUE, None, {})

-----------------------------------------------------------------------------
\* database.py and the request handlers

\* A store whose update does not take the lock
CanAcquire_NoLock == TRUE

\* Database.update and Database.snapshot run under `with self.lock`
CanAcquire == lock = NoThread

\* The file after a _write that ran to its end: the whole document
_write(d) == [document |-> d, complete |-> TRUE]

\* A host on which nothing was extracted and no child runs
CleanMachine == [extracted |-> "absent", children |-> EmptyMap, listeners |-> EmptyMap]

\* A request thread that holds nothing of the store
Nothing == [kind |-> "nothing"]

Idle == [stage |-> "idle", player |-> "", room |-> 0, refusal |-> None]

NoReply == [op |-> "", args |-> <<>>, ok |-> TRUE, msg |-> None, flushed |-> FALSE]

\* The call of a handler and its reply; flushed says whether Database._write ran
\* in the call
ReplyTo(op, args, ok, msg, flushed) ==
  IF op \in watched
  THEN [op |-> op, args |-> args, ok |-> ok, msg |-> msg, flushed |-> flushed]
  ELSE NoReply

Reply(op, ok, msg, flushed) == ReplyTo(op, <<>>, ok, msg, flushed)

\* The reply of a handler that went through Database.update, which writes the
\* document to disk before it returns
Response(op, ok, msg) == Reply(op, ok, msg, TRUE)

\* Database.update(updater) for an updater that runs in one step: the document
\* it leaves, the children it stopped, and its return value
Update(op, r) ==
  /\ CanAcquire
  /\ data' = r.data
  /\ disk' = _write(r.data)
  /\ processes' = StopAll(processes, r.stopped)
  /\ result' = Response(op, r.ok, r.msg)
  /\ UNCHANGED <<now, lock, pending, env, watched, held, machine>>

Callers == PlayerNames \cup {"zed"}
RoomIds == 1 .. MaxRoomId
Instants ==
  {StartTick + o : o \in {0, Sec(ROOM_HEARTBEAT_TIMEOUT), Sec(ROOM_HEARTBEAT_TIMEOUT) + 1,
                          Sec(FINISHED_ROOM_GRACE_SECONDS),
                          Sec(FINISHED_ROOM_GRACE_SECONDS) + 1}}

Boot(environment, watch) ==
  /\ processes = EmptyMap
  /\ now = StartTick
  /\ lock = NoThread
  /\ pending = [th \in Threads |-> Idle]
  /\ env = environment
  /\ watched = watch
  /\ result = NoReply
  /\ played_log = {}
  /\ disk = _write(data)
  /\ held = [th \in Threads |-> Nothing]
  /\ machine = CleanMachine

\* Time passes between requests
TickWithin(instants) ==
  /\ lock = NoThread
  /\ \E t \in instants : t > now /\ now' = t
  /\ UNCHANGED <<data, processes, lock, pending, env, watched, result, played_log,
                 disk, held,
                 machine>>

Tick == TickWithin(Instants)

CreateRoom(host, game_id) ==
  /\ data.next_ids.room <= MaxRoomId
  /\ Update("create_room", create_room(data, host, game_id, now, env.MAX_ROOMS))
  /\ UNCHANGED played_log

JoinRoom(player, room_id) ==
  /\ Update("join_room", join_room(data, player, room_id, now))
  /\ UNCHANGED played_log

\* join_room, first half: db.update takes the lock, _join runs the GC pass and
\* its checks
JoinRoomCheck(th, player, room_id) ==
  /\ CanAcquire
  /\ pending[th].stage = "idle"
  /\ \A other \in Threads : pending[other].stage = "idle" => th <= other
  /\ lock' = th
  /\ data' = _cleanup_rooms(data, now)
  /\ processes' = StopAll(processes, CleanupStops(data, now))
  /\ pending' = [pending EXCEPT ![th] =
                   [stage |-> "checked", player |-> player, room |-> room_id,
                    refusal |-> JoinRefusal(_cleanup_rooms(data, now), player, room_id)]]
  /\ UNCHANGED <<now, env, watched, result, played_log, disk, held, machine>>

\* join_room, second half: _join appends unless it refused, db.update writes the
\* document and releases the lock
JoinRoomReturn(th) ==
  /\ pending[th].stage = "checked"
  /\ LET q == pending[th]
         ok == q.refusal = None /\ q.room \in DOMAIN data.rooms
     IN  /\ data' = IF ok THEN JoinAppend(data, q.player, q.room, now) ELSE data
         /\ result' = Response("join_room", ok, IF ok THEN <<"joined">> ELSE q.refusal)
  /\ disk' = _write(data')
  /\ lock' = NoThread
  /\ pending' = [pending EXCEPT ![th] = Idle]
  /\ UNCHANGED <<processes, now, env, watched, played_log, held, machine>>

LeaveRoom(player, room_id) ==
  /\ Update("leave_room", leave_room(data, player, room_id, now))
  /\ UNCHANGED played_log

CloseRoom(player, room_id) ==
  /\ Update("close_room", close_room(data, room_id, player, now))
  /\ UNCHANGED played_log

RoomHeartbeat(player, room_id) ==
  /\ Update("room_heartbeat", room_heartbeat(data, room_id, player, now))
  /\ UNCHANGED played_log

ListRooms ==
  /\ Update("list_rooms", list_rooms(data, now))
  /\ UNCHANGED played_log

GetRoom(room_id) ==
  /\ Update("get_room", get_room(data, room_id, now))
  /\ UNCHANGED played_log

\* start_room where the bundle and the child behave in one of the given ways.
\* The outcome is drawn only when _start gets as far as the runtime.
StartRoomWith(outcomes, player, room_id) ==
  \E outcome \in IF StartRefusal(_cleanup_rooms(data, now), room_id, player) # None
                 THEN {CHOOSE o \in outcomes : TRUE} ELSE outcomes :
    LET r == start_room(data, processes, room_id, player, now, outcome)
    IN  /\ CanAcquire
        /\ data' = r.data
        /\ processes' = r.processes
        /\ disk' = _write(r.data)
        /\ result' = Response("start_room", r.ok, r.msg)
        /\ UNCHANGED <<now, lock, pending, env, watched, played_log, held, machine>>

StartRoom(player, room_id) == StartRoomWith(StartOutcomes, player, room_id)

MarkRoomPlayed(player, room_id) ==
  LET r == mark_room_played(data, room_id, player, now)
  IN  /\ Update("mark_room_played", r)
      /\ played_log' =
           IF r.ok
           THEN played_log \cup
                  {[room |-> room_id, game_id |-> r.data.rooms[room_id].game_id,
                    members |-> Range(r.data.rooms[room_id].players)]}
           ELSE played_log

\* A score out of range is refused before db.update is called
AddRating(player, game_id, score, comment) ==
  LET r == add_rating(data, player, game_id, score, comment, now)
  IN  /\ IF ScoreRefused(score)
         THEN /\ result' = Reply("add_rating", r.ok, r.msg, FALSE)
              /\ UNCHANGED <<data, processes, now, lock, pending, env, watched, disk, held, machine>>
         ELSE Update("add_rating", r)
      /\ UNCHANGED played_log

AuthInstants ==
  {StartTick + o : o \in {0, Sec(CONCURRENT_LOGIN_LOCK) - 1, Sec(CONCURRENT_LOGIN_LOCK),
                          Sec(SESSION_TIMEOUT), Sec(SESSION_TIMEOUT) + 1}}

\* A call of the session layer; written says whether it went through db.update
AuthCall(op, args, d, ok, msg, written) ==
  /\ CanAcquire
  /\ data' = d
  /\ disk' = IF written THEN _write(d) ELSE disk
  /\ result' = ReplyTo(op, args, ok, msg, written)
  /\ UNCHANGED <<processes, now, lock, pending, env, watched, played_log, held, machine>>

Register(user_type, username, password) ==
  LET r == register(data, user_type, username, password)
  IN  AuthCall("register", <<user_type, username, password>>, r.data, r.ok, r.msg,
               ~RegisterRefused(username, password))

Login(user_type, username, password) ==
  LET r == login(data, user_type, username, password, now)
  IN  AuthCall("login", <<user_type, username, password>>, r.data, r.ok, r.msg, TRUE)

Logout(user_type, username) ==
  LET r == logout(data, user_type, username)
  IN  AuthCall("logout", <<user_type, username>>, r.data, r.ok, r.msg, TRUE)

IsLoggedIn(user_type, username) ==
  LET r == is_logged_in(data, user_type, username, now)
  IN  AuthCall("is_logged_in", <<user_type, username>>, r.data, r.ok, None, r.flushed)

Heartbeat(user_type, username) ==
  LET r == heartbeat(data, user_type, username, now)
  IN  AuthCall("heartbeat", <<user_type, username>>, r.data, r.ok, r.msg, TRUE)

-----------------------------------------------------------------------------
\* server.py: the session endpoints. A reply is the document the request
\* leaves, the HTTP status, the message, and whether the store was written.

HttpReply(d, status, msg, flushed) ==
  [data |-> d, status |-> status, msg |-> msg, flushed |-> flushed]

\* The parameters of auth.logout, auth.is_logged_in and auth.heartbeat
SessionParams == <<"db", "user_type", "username">>

\* Python binds the positional arguments of a call to the parameters before the
\* body runs; with too few of them it raises TypeError, which no handler of
\* server.py catches and Flask answers with 500
RaisesTypeError(passed, params) == Len(passed) # Len(params)

\* dev_register, player_register
register_endpoint(d, user_type, username, password) ==
  LET r == register(d, user_type, username, password)
  IN  HttpReply(r.data, IF r.ok THEN 200 ELSE 400, r.msg,
                ~RegisterRefused(username, password))

\* dev_login, player_login
login_endpoint(d, user_type, username, password, t) ==
  LET r == login(d, user_type, username, password, t)
  IN  HttpReply(r.data, IF r.ok THEN 200 ELSE 401, r.msg, TRUE)

\* dev_logout, player_logout: auth.logout(user_type, username)
logout_endpoint(d, user_type, username) ==
  LET passed == <<user_type, username>>
  IN  IF RaisesTypeError(passed, SessionParams)
      THEN HttpReply(d, 500, <<"TypeError">>, FALSE)
      ELSE HttpReply(logout(d, user_type, username).data, 200, <<"logged_out">>, TRUE)

\* dev_heartbeat, player_heartbeat: auth.is_logged_in(user_type, username), then
\* auth.heartbeat(user_type, username)
heartbeat_endpoint(d, user_type, username, t) ==
  LET passed == <<user_type, username>>
  IN  IF RaisesTypeError(passed, SessionParams)
      THEN HttpReply(d, 500, <<"TypeError">>, FALSE)
      ELSE IF ~is_logged_in(d, user_type, username, t).ok
      THEN HttpReply(d, 401, <<"not_logged_in">>, FALSE)
      ELSE HttpReply(heartbeat(d, user_type, username, t).data, 200, <<"ok">>, TRUE)

\* A request to an endpoint, which Flask serves on a thread of its own
Request(op, args, r) ==
  /\ CanAcquire
  /\ data' = r.data
  /\ disk' = IF r.flushed THEN _write(r.data) ELSE disk
  /\ result' = ReplyTo(op, args, r.status < 400, <<r.status>> \o r.msg, r.flushed)
  /\ UNCHANGED <<processes, now, lock, pending, env, watched, played_log, held, machine>>

PostRegister(user_type, username, password) ==
  Request("register_endpoint", <<user_type, username, password>>,
          register_endpoint(data, user_type, username, password))

PostLogin(user_type, username, password) ==
  Request("login_endpoint", <<user_type, username, password>>,
          login_endpoint(data, user_type, username, password, now))

PostLogout(user_type, username) ==
  Request("logout_endpoint", <<user_type, username>>,
          logout_endpoint(data, user_type, username))

PostHeartbeat(user_type, username) ==
  Request("heartbeat_endpoint", <<user_type, username>>,
          heartbeat_endpoint(data, user_type, username, now))

\* create_game and update_game_version return before db.update when
\* _validate_upload (or the type comparison of create_game) refuses
CreateGame(developer, name, version, upload, game_type) ==
  LET r == create_game(data, developer, name, version, upload, game_type, now)
  IN  /\ IF r.msg \in {<<"invalid_upload">>, <<"type_mismatch">>}
         THEN /\ result' = Reply("create_game", r.ok, r.msg, FALSE)
              /\ UNCHANGED <<data, processes, now, lock, pending, env, watched, disk, held, machine>>
         ELSE Update("create_game", r)
      /\ UNCHANGED played_log

UpdateGameVersion(developer, game_id, version, upload) ==
  LET r == update_game_version(data, developer, game_id, version, upload, now)
  IN  /\ IF r.msg = <<"invalid_upload">>
         THEN /\ result' = Reply("update_game_version", r.ok, r.msg, FALSE)
              /\ UNCHANGED <<data, processes, now, lock, pending, env, watched, disk, held, machine>>
         ELSE Update("update_game_version", r)
      /\ UNCHANGED played_log

RemoveGame(developer, game_id) ==
  /\ Update("remove_game", remove_game(data, developer, game_id, now))
  /\ UNCHANGED played_log

-----------------------------------------------------------------------------
\* database.py: Database.update and Database.snapshot, statement by statement,
\* on request threads. The updater is create_room._create, whose two writes
\* (next_ids.room, then rooms[room_id]) make the middle of an update visible
\* to whoever could look.

\* A snapshot that hands out the live document
deepcopy_Alias(d) == [kind |-> "live", touched |-> FALSE]

\* copy.deepcopy: an object of the caller's own, equal to the document
deepcopy(d) == [kind |-> "copy", value |-> d, touched |-> FALSE]

\* What a thread reads through what it holds
Deref(h) == IF h.kind = "live" THEN data ELSE h.value

\* `with self.lock:` of update, entered
UpdateEnter(th, host, game_id) ==
  /\ CanAcquire
  /\ pending[th].stage = "idle"
  /\ data.next_ids.room <= MaxRoomId
  /\ lock' = th
  /\ pending' = [pending EXCEPT ![th] =
                   [stage |-> "entered", host |-> host, game_id |-> game_id,
                    before |-> data, value |-> None]]
  /\ UNCHANGED <<data, processes, now, env, watched, result, played_log, disk, held, machine>>

\* updater(self.data), up to and including data["next_ids"]["room"] += 1, or
\* to the return of a refusal
UpdateFirst(th) ==
  /\ pending[th].stage = "entered"
  /\ LET q == pending[th]
         r == create_room(data, q.host, q.game_id, now, env.MAX_ROOMS)
     IN  IF r.ok
         THEN /\ data' = [data EXCEPT !.next_ids.room = @ + 1]
              /\ pending' = [pending EXCEPT ![th].stage = "allocated"]
         ELSE /\ data' = data
              /\ pending' = [pending EXCEPT ![th].stage = "ran",
                                            ![th].value = [ok |-> FALSE, msg |-> r.msg]]
  /\ UNCHANGED <<processes, now, lock, env, watched, result, played_log, disk, held, machine>>

\* updater(self.data), from the construction of the room to the return
UpdateSecond(th) ==
  /\ pending[th].stage = "allocated"
  /\ LET q == pending[th]
         room_id == data.next_ids.room - 1
     IN  /\ data' = [data EXCEPT !.rooms =
                       Put(@, room_id, NewRoom(room_id, data.games[q.game_id], q.host, now))]
         /\ pending' = [pending EXCEPT ![th].stage = "ran",
                                       ![th].value = [ok |-> TRUE, msg |-> <<"room_created">>]]
  /\ UNCHANGED <<processes, now, lock, env, watched, result, played_log, disk, held, machine>>

\* self._write(self.data)
UpdateWrite(th) ==
  /\ pending[th].stage = "ran"
  /\ disk' = _write(data)
  /\ pending' = [pending EXCEPT ![th].stage = "written"]
  /\ UNCHANGED <<data, processes, now, lock, env, watched, result, played_log, held, machine>>

\* return result, leaving the with block
UpdateReturn(th) ==
  /\ pending[th].stage = "written"
  /\ lock' = NoThread
  /\ result' = Response("create_room", pending[th].value.ok, pending[th].value.msg)
  /\ pending' = [pending EXCEPT ![th] = Idle]
  /\ UNCHANGED <<data, processes, now, env, watched, played_log, disk, held, machine>>

\* Database.snapshot, whole: the lock is taken, the copy made, the lock released
Snapshot(th) ==
  /\ CanAcquire
  /\ pending[th].stage = "idle"
  /\ held[th] = Nothing
  /\ held' = [held EXCEPT ![th] = deepcopy(data)]
  /\ UNCHANGED <<data, processes, now, lock, pending, env, watched, result, played_log,
                 disk,
                 machine>>

\* The caller writes into what snapshot gave it: snap["next_ids"]["room"] = 0
SnapshotMutate(th) ==
  /\ held[th] # Nothing
  /\ ~held[th].touched
  /\ IF held[th].kind = "live"
     THEN /\ data' = [data EXCEPT !.next_ids.room = 0]
          /\ held' = [held EXCEPT ![th].touched = TRUE]
     ELSE /\ data' = data
          /\ held' = [held EXCEPT ![th].touched = TRUE,
                                  ![th].value = [@ EXCEPT !.next_ids.room = 0]]
  /\ UNCHANGED <<processes, now, lock, pending, env, watched, result, played_log, disk, machine>>

\* The caller drops what it holds
SnapshotDrop(th) ==
  /\ held[th] # Nothing
  /\ held' = [held EXCEPT ![th] = Nothing]
  /\ UNCHANGED <<data, processes, now, lock, pending, env, watched, result, played_log,
                 disk,
                 machine>>

\* The file after open(self.path, "w") and some of json.dump: the old content
\* is gone and a proper prefix (possibly empty) of the document's text is there
Truncated(d) == [document |-> d, complete |-> FALSE]

\* self._write(self.data), first half: open(path, "w") and the first writes
WriteOpen(th) ==
  /\ pending[th].stage = "ran"
  /\ disk' = Truncated(data)
  /\ pending' = [pending EXCEPT ![th].stage = "dumping"]
  /\ UNCHANGED <<data, processes, now, lock, env, watched, result, played_log, held, machine>>

\* self._write(self.data), second half: the rest of json.dump and the close
WriteDump(th) ==
  /\ pending[th].stage = "dumping"
  /\ disk' = _write(data)
  /\ pending' = [pending EXCEPT ![th].stage = "written"]
  /\ UNCHANGED <<data, processes, now, lock, env, watched, result, played_log, held, machine>>

\* No server process: Database.data, the lock, the request threads and the
\* handle map are gone
NoDocument == [down |-> TRUE]

Up == data # NoDocument

\* The server process stops (kill, power loss); only the file stays
Crash ==
  /\ Up
  /\ data' = NoDocument
  /\ processes' = EmptyMap
  /\ lock' = NoThread
  /\ pending' = [th \in Threads |-> Idle]
  /\ held' = [th \in Threads |-> Nothing]
  /\ result' = NoReply
  /\ UNCHANGED <<now, env, watched, played_log, disk, machine>>

\* json.load of the file: raises on text that is not a whole JSON document
_read(file) ==
  IF file.complete THEN [ok |-> TRUE, data |-> file.document]
  ELSE [ok |-> FALSE, data |-> NoDocument]

\* The server is started again: server.py builds Database(path), whose
\* __init__ finds the file and sets self.data = self._read(); an exception of
\* json.load ends the import of server.py, and with it the process
Restart ==
  /\ ~Up
  /\ data' = _read(disk).data
  /\ result' = ReplyTo("__init__", <<>>, _read(disk).ok,
                       IF _read(disk).ok THEN <<"loaded">> ELSE <<"JSONDecodeError">>,
                       FALSE)
  /\ UNCHANGED <<processes, now, lock, pending, env, watched, played_log, disk, held, machine>>

-----------------------------------------------------------------------------
\* The room registry over time, on a server started with MAX_ROOMS=1

Init ==
  /\ data = PopulatedData
  /\ Boot([MAX_ROOMS |-> 1], {})

Next ==
  \/ Tick
  \/ \E host \in Callers, game_id \in GameIds : CreateRoom(host, game_id)
  \/ \E player \in Callers, room_id \in RoomIds : JoinRoom(player, room_id)
  \/ \E player \in Callers, room_id \in RoomIds : LeaveRoom(player, room_id)
  \/ \E player \in Callers, room_id \in RoomIds : CloseRoom(player, room_id)
  \/ \E player \in Callers, room_id \in RoomIds : RoomHeartbeat(player, room_id)
  \/ ListRooms
  \/ \E room_id \in RoomIds : GetRoom(room_id)
  \/ \E player \in Callers, room_id \in RoomIds : StartRoom(player, room_id)
  \/ \E player \in Callers, room_id \in RoomIds : MarkRoomPlayed(player, room_id)

Spec == Init /\ [][Next]_vars

-----------------------------------------------------------------------------
\* Concurrent join requests: join_room in its two halves, on request threads
\* that contend for the store's lock

InitJoin ==
  /\ data = PopulatedData
  /\ Boot([MAX_ROOMS |-> 1], {})

NextJoin ==
  \/ Tick
  \/ \E host \in Callers, game_id \in GameIds : CreateRoom(host, game_id)
  \/ \E th \in Threads, player \in Callers, room_id \in RoomIds :
       JoinRoomCheck(th, player, room_id)
  \/ \E th \in Threads : JoinRoomReturn(th)
  \/ \E player \in Callers, room_id \in RoomIds : LeaveRoom(player, room_id)
  \/ \E player \in Callers, room_id \in RoomIds : StartRoom(player, room_id)

SpecJoin == InitJoin /\ [][NextJoin]_vars

-----------------------------------------------------------------------------
\* Play counts, on a server started with MAX_ROOMS=2, with its requests close
\* enough in time that no heartbeat goes stale, and with a Dice bundle whose
\* manifest names no server_entry (the game runs in the clients)

ClientOnly == {o \in StartOutcomes : o.kind = "client_only"}

InitPlay ==
  /\ data = PopulatedData
  /\ Boot([MAX_ROOMS |-> 2], {"mark_room_played"})

NextPlay ==
  \/ \E host \in Callers, game_id \in GameIds : CreateRoom(host, game_id)
  \/ \E player \in Callers, room_id \in RoomIds : JoinRoom(player, room_id)
  \/ \E player \in Callers, room_id \in RoomIds : LeaveRoom(player, room_id)
  \/ \E player \in Callers, room_id \in RoomIds :
       StartRoomWith(ClientOnly, player, room_id)
  \/ \E player \in Callers, room_id \in RoomIds : MarkRoomPlayed(player, room_id)

SpecPlay == InitPlay /\ [][NextPlay]_vars

-----------------------------------------------------------------------------
\* Ratings. The server has been up for an instant: bob opened room 1 for Dice,
\* carol joined, bob started it and the game server came up. The requests that
\* follow come within a second or two, well inside every timeout.

RateStart ==
  LET created == create_room(PopulatedData, "bob", "dice", StartTick, 0).data
      joined == join_room(created, "carol", 1, StartTick).data
  IN  start_room(joined, EmptyMap, 1, "bob", StartTick,
                 [kind |-> "ready", port |-> CHOOSE p \in Ports : TRUE])

ShortInstants == {StartTick + o : o \in {0, 1, TicksPerSecond}}

InitRate ==
  /\ data = RateStart.data
  /\ processes = RateStart.processes
  /\ now = StartTick
  /\ lock = NoThread
  /\ pending = [th \in Threads |-> Idle]
  /\ env = [MAX_ROOMS |-> 0]
  /\ watched = {"add_rating"}
  /\ result = NoReply
  /\ played_log = {}
  /\ disk = _write(data)
  /\ held = [th \in Threads |-> Nothing]
  /\ machine = CleanMachine

NextRate ==
  \/ TickWithin(ShortInstants)
  \/ \E player \in Callers, room_id \in RoomIds : MarkRoomPlayed(player, room_id)
  \/ \E player \in Callers, game_id \in GameIds, score \in Scores, comment \in Comments :
       AddRating(player, game_id, score, comment)

SpecRate == InitRate /\ [][NextRate]_vars

-----------------------------------------------------------------------------
\* The session layer, from an empty store

InitAuth ==
  /\ data = DEFAULT_DATA
  /\ Boot([MAX_ROOMS |-> 0], {"is_logged_in", "login", "logout", "heartbeat"})

NextAuth ==
  \/ TickWithin(AuthInstants)
  \/ \E user_type \in Roles, username \in Usernames, password \in Passwords :
       Register(user_type, username, password)
  \/ \E user_type \in Roles, username \in Usernames, password \in Passwords :
       Login(user_type, username, password)
  \/ \E user_type \in Roles, username \in Usernames : Logout(user_type, username)
  \/ \E user_type \in Roles, username \in Usernames : IsLoggedIn(user_type, username)
  \/ \E user_type \in Roles, username \in Usernames : Heartbeat(user_type, username)

SpecAuth == InitAuth /\ [][NextAuth]_vars

-----------------------------------------------------------------------------
\* The session endpoints, from an empty store

InitHttp ==
  /\ data = DEFAULT_DATA
  /\ Boot([MAX_ROOMS |-> 0], {"heartbeat_endpoint", "logout_endpoint"})

NextHttp ==
  \/ TickWithin(AuthInstants)
  \/ \E user_type \in Roles, username \in Usernames, password \in Passwords :
       PostRegister(user_type, username, password)
  \/ \E user_type \in Roles, username \in Usernames, password \in Passwords :
       PostLogin(user_type, username, password)
  \/ \E user_type \in Roles, username \in Usernames : PostLogout(user_type, username)
  \/ \E user_type \in Roles, username \in Usernames : PostHeartbeat(user_type, username)

SpecHttp == InitHttp /\ [][NextHttp]_vars

-----------------------------------------------------------------------------
\* Starts and what the runtime makes of them, on a server started with
\* MAX_ROOMS=1

InitStart ==
  /\ data = PopulatedData
  /\ Boot([MAX_ROOMS |-> 1], {"start_room"})

NextStart ==
  \/ Tick
  \/ \E host \in Callers, game_id \in GameIds : CreateRoom(host, game_id)
  \/ \E player \in Callers, room_id \in RoomIds : JoinRoom(player, room_id)
  \/ \E player \in Callers, room_id \in RoomIds : LeaveRoom(player, room_id)
  \/ \E player \in Callers, room_id \in RoomIds : StartRoom(player, room_id)

SpecStart == InitStart /\ [][NextStart]_vars

-----------------------------------------------------------------------------
\* Room creation against the cap over time, on a server started with MAX_ROOMS=1

InitCap ==
  /\ data = PopulatedData
  /\ Boot([MAX_ROOMS |-> 1], {"create_room"})

NextCap ==
  \/ Tick
  \/ \E host \in Callers, game_id \in GameIds : CreateRoom(host, game_id)
  \/ \E player \in Callers, room_id \in RoomIds : JoinRoom(player, room_id)
  \/ \E player \in Callers, room_id \in RoomIds : CloseRoom(player, room_id)
  \/ \E player \in Callers, room_id \in RoomIds : RoomHeartbeat(player, room_id)
  \/ ListRooms
  \/ \E room_id \in RoomIds : GetRoom(room_id)

SpecCap == InitCap /\ [][NextCap]_vars

-----------------------------------------------------------------------------
\* The catalogue and the rooms of its games, on a server started with
\* MAX_ROOMS=1

\* A bundle without server_entry, a child that comes up, a child that does not
FewOutcomes ==
  {o \in StartOutcomes :
     o.kind \in {"client_only", "timeout"} \/ o = [kind |-> "ready", port |-> 7001]}

\* Uploads that are refused or fit Dice
FittingUploads == {u \in Uploads : ~u.ok \/ u.min_players = 2}

InitGame ==
  /\ data = PopulatedData
  /\ Boot([MAX_ROOMS |-> 1], {"start_room"})

NextGame ==
  \/ \E developer \in Developers, name \in GameNames, version \in Versions,
        upload \in FittingUploads :
       CreateGame(developer, name, version, upload, "")
  \/ \E developer \in Developers, game_id \in GameIds, version \in Versions,
        upload \in FittingUploads :
       UpdateGameVersion(developer, game_id, version, upload)
  \/ \E developer \in Developers, game_id \in GameIds : RemoveGame(developer, game_id)
  \/ \E host \in Callers, game_id \in GameIds : CreateRoom(host, game_id)
  \/ \E player \in Callers, room_id \in RoomIds : JoinRoom(player, room_id)
  \/ \E player \in Callers, room_id \in RoomIds : CloseRoom(player, room_id)
  \/ \E player \in Callers, room_id \in RoomIds :
       StartRoomWith(FewOutcomes, player, room_id)

SpecGame == InitGame /\ [][NextGame]_vars

-----------------------------------------------------------------------------
\* The catalogue alone: uploads, new versions and delistings

InitCatalogue ==
  /\ data = PopulatedData
  /\ Boot([MAX_ROOMS |-> 1], {"update_game_version"})

NextCatalogue ==
  \/ TickWithin(ShortInstants)
  \/ \E developer \in Developers, name \in GameNames, version \in Versions,
        upload \in Uploads, game_type \in GameTypes :
       CreateGame(developer, name, version, upload, game_type)
  \/ \E developer \in Developers, game_id \in GameIds, version \in Versions,
        upload \in Uploads :
       UpdateGameVersion(developer, game_id, version, upload)
  \/ \E developer \in Developers, game_id \in GameIds : RemoveGame(developer, game_id)

SpecCatalogue == InitCatalogue /\ [][NextCatalogue]_vars

-----------------------------------------------------------------------------
\* The store under concurrent updates and snapshots

InitStore ==
  /\ data = PopulatedData
  /\ Boot([MAX_ROOMS |-> 0], {"create_room"})

NextStore ==
  \/ \E th \in Threads, host \in Callers, game_id \in GameIds :
       UpdateEnter(th, host, game_id)
  \/ \E th \in Threads : UpdateFirst(th)
  \/ \E th \in Threads : UpdateSecond(th)
  \/ \E th \in Threads : UpdateWrite(th)
  \/ \E th \in Threads : UpdateReturn(th)
  \/ \E th \in Threads : Snapshot(th)
  \/ \E th \in Threads : SnapshotMutate(th)
  \/ \E th \in Threads : SnapshotDrop(th)

SpecStore == InitStore /\ [][NextStore]_vars

-----------------------------------------------------------------------------
\* What the room handlers hand back to the endpoints, and what the endpoints
\* read through it after Database.update has released the lock

\* A returned room: the stored dict itself ("live") or dict(room) ("shallow"),
\* a new dict whose players list and heartbeats dict are the stored room's own.
\* top is the dict's content at the return; own_players says that the stored
\* room has since been given a new players list (room["players"] = [...]), so
\* that the list in top.players is no longer the stored one.
RoomRef(mode, room) == [mode |-> mode, top |-> room, own_players |-> FALSE]

\* The third component of the tuple a handler returns (for list_rooms and
\* get_room, the value), as a map from room ids to references; None is the
\* empty map. d is the document the handler leaves.
Returned(op, player, room_id, d) ==
  LET stored == room_id \in DOMAIN d.rooms
      room == d.rooms[room_id]
      finished == stored /\ room.status = "finished"
      member == stored /\ player \in Range(room.players)
      one(mode) == [rid \in {room_id} |-> RoomRef(mode, room)]
  IN  CASE op = "list_rooms" ->
             [rid \in {x \in DOMAIN d.rooms : d.rooms[x].status # "finished"} |->
                RoomRef("live", d.rooms[rid])]
        [] op = "get_room" -> IF stored THEN one("shallow") ELSE EmptyMap
        [] op = "room_heartbeat" -> IF member THEN one("shallow") ELSE EmptyMap
        [] op = "leave_room_refused" -> IF finished THEN one("live") ELSE EmptyMap
        [] op = "leave_room" -> one("shallow")
        [] op = "close_room_refused" ->
             IF member /\ finished THEN one("live") ELSE EmptyMap
        [] op = "close_room" -> one("shallow")
        [] op = "start_room_refused" ->
             IF finished \/ (stored /\ room.game_id \in DOMAIN d.games
                                    /\ room.status # "waiting")
             THEN one("live") ELSE EmptyMap
        [] op \in {"create_room", "join_room", "start_room"} -> one("live")
        [] OTHER -> EmptyMap

\* What a thread holds after a handler returned to it
Hold(op, refs, d) ==
  [kind |-> "returned", op |-> op, refs |-> refs,
   returned |-> [rid \in DOMAIN refs |-> d.rooms[rid]]]

\* What is read through a reference when the document is d
SeenThrough(ref, rid, d) ==
  IF ref.mode = "live" THEN d.rooms[rid]
  ELSE [ref.top EXCEPT
          !.heartbeats = d.rooms[rid].heartbeats,
          !.players = IF ref.own_players THEN @ ELSE d.rooms[rid].players]

\* What the other threads hold once a handler has run on the document d0:
\* _leave gives the room a new players list, which leaves the old list, as it
\* then is, to the shallow copies made before
Rebind(h, op, room_id, d0) ==
  IF h = Nothing \/ op # "leave_room" \/ room_id \notin DOMAIN h.refs THEN h
  ELSE LET ref == h.refs[room_id] IN
    IF ref.mode = "live" \/ ref.own_players THEN h
    ELSE [h EXCEPT !.refs[room_id] =
            [ref EXCEPT !.top = [@ EXCEPT !.players = d0.rooms[room_id].players],
                        !.own_players = TRUE]]

\* An endpoint of server.py on request thread th, up to the return of the
\* game_manager function it calls: db.update runs the updater, writes the file,
\* releases the lock and hands the updater's value to the endpoint
Call(th, op, player, room_id, r, procs) ==
  LET how == IF r.ok \/ op \in {"list_rooms", "get_room", "room_heartbeat"}
             THEN op ELSE op \o "_refused"
  IN  /\ CanAcquire
      /\ held[th] = Nothing
      /\ data' = r.data
      /\ disk' = _write(r.data)
      /\ processes' = procs
      /\ held' = [o \in Threads |->
                    IF o = th THEN Hold(op, Returned(how, player, room_id, r.data), r.data)
                    ELSE Rebind(held[o], how, room_id, data)]
      /\ result' = NoReply
      /\ UNCHANGED <<now, lock, pending, env, watched, played_log, machine>>

CallUpdate(th, op, player, room_id, r) ==
  Call(th, op, player, room_id, r, StopAll(processes, r.stopped))

\* The rest of the endpoint: _resp(ok, msg, data) runs jsonify over the value
\* the handler returned, reading whatever is reachable from it at that time
Serialize(th) ==
  /\ held[th] # Nothing
  /\ held[th].kind = "returned"
  /\ result' = ReplyTo("_resp", <<held[th].op>>, TRUE,
                       <<[rid \in DOMAIN held[th].refs |->
                            SeenThrough(held[th].refs[rid], rid, data)]>>, FALSE)
  /\ held' = [held EXCEPT ![th] = Nothing]
  /\ UNCHANGED <<data, processes, now, lock, pending, env, watched, played_log, disk, machine>>

InitAlias ==
  /\ data = PopulatedData
  /\ Boot([MAX_ROOMS |-> 0], {"_resp"})

\* The players who make requests, and those of them who open rooms
Members == {"bob", "carol"}
Hosts == {"bob"}
OneOutcome == {o \in StartOutcomes : o.kind = "client_only"}

NextAlias ==
  \/ \E th \in Threads, host \in Hosts, game_id \in {"dice"} :
       /\ data.next_ids.room <= MaxRoomId
       /\ DOMAIN data.rooms = {}
       /\ CallUpdate(th, "create_room", host, data.next_ids.room,
                     create_room(data, host, game_id, now, env.MAX_ROOMS))
  \/ \E th \in Threads, player \in Members, room_id \in RoomIds :
       CallUpdate(th, "join_room", player, room_id, join_room(data, player, room_id, now))
  \/ \E th \in Threads, player \in Members, room_id \in RoomIds :
       CallUpdate(th, "leave_room", player, room_id, leave_room(data, player, room_id, now))
  \/ \E th \in Threads, player \in Members, room_id \in RoomIds :
       CallUpdate(th, "close_room", player, room_id, close_room(data, room_id, player, now))
  \/ \E th \in Threads, player \in Members, room_id \in RoomIds :
       CallUpdate(th, "room_heartbeat", player, room_id,
                  room_heartbeat(data, room_id, player, now))
  \/ \E th \in Threads : CallUpdate(th, "list_rooms", "", 0, list_rooms(data, now))
  \/ \E th \in Threads, room_id \in RoomIds :
       CallUpdate(th, "get_room", "", room_id, get_room(data, room_id, now))
  \/ \E th \in Threads, player \in Members, room_id \in RoomIds,
        outcome \in OneOutcome :
       LET r == start_room(data, processes, room_id, player, now, outcome)
       IN  Call(th, "start_room", player, room_id, r, r.processes)
  \/ \E th \in Threads : Serialize(th)

SpecAlias == InitAlias /\ [][NextAlias]_vars

-----------------------------------------------------------------------------
\* game_runtime.start_game_server, statement by statement, called by two
\* threads for two rooms of the same game and version. The module takes no lock.

NoPort == 0

\* start_game_server(game_id, version, room_id, zip_path) is called
RtCall(th, room_id) ==
  LET busy == {o \in Threads \ {th} : pending[o].stage \notin {"idle", "returned"}}
  IN  /\ pending[th].stage = "idle"
      /\ \A o \in Threads \ {th} : pending[o].room # room_id
      /\ pending' = [o \in Threads |->
                       IF o = th
                       THEN [stage |-> "exists", room |-> room_id, port |-> NoPort,
                             saw |-> "nothing", alone |-> busy = {},
                             ok |-> FALSE, msg |-> None]
                       ELSE IF o \in busy THEN [pending[o] EXCEPT !.alone = FALSE]
                       ELSE pending[o]]
      /\ UNCHANGED <<data, processes, now, lock, env, watched, result, played_log, disk,
                     held, machine>>

\* _extract: if os.path.exists(target_dir): return target_dir
RtExists(th) ==
  /\ pending[th].stage = "exists"
  /\ pending' = [pending EXCEPT ![th].stage =
                   IF machine.extracted = "absent" THEN "makedirs" ELSE "manifest"]
  /\ UNCHANGED <<data, processes, now, lock, env, watched, result, played_log, disk,
                 held, machine>>

\* _extract: os.makedirs(target_dir, exist_ok=True)
RtMakedirs(th) ==
  /\ pending[th].stage = "makedirs"
  /\ machine' = [machine EXCEPT !.extracted = IF @ = "absent" THEN "partial" ELSE @]
  /\ pending' = [pending EXCEPT ![th].stage = "extractall"]
  /\ UNCHANGED <<data, processes, now, lock, env, watched, result, played_log, disk,
                 held>>

\* _extract: zf.extractall(target_dir), to its end
RtExtractAll(th) ==
  /\ pending[th].stage = "extractall"
  /\ machine' = [machine EXCEPT !.extracted = "complete"]
  /\ pending' = [pending EXCEPT ![th].stage = "manifest"]
  /\ UNCHANGED <<data, processes, now, lock, env, watched, result, played_log, disk,
                 held>>

\* The manifest and the server_entry are looked up in the directory. In a
\* directory that is still being filled either may be missing, or both there.
RtManifest(th, found) ==
  /\ pending[th].stage = "manifest"
  /\ machine.extracted = "complete" => found = "both"
  /\ pending' = [pending EXCEPT
                   ![th].saw = machine.extracted,
                   ![th].stage = IF found = "both" THEN "find_port" ELSE "returned",
                   ![th].msg = CASE found = "both" -> None
                                 [] found = "no_manifest" -> <<"manifest_missing">>
                                 [] OTHER -> <<"server_entry_missing">>]
  /\ UNCHANGED <<data, processes, now, lock, env, watched, result, played_log, disk,
                 held, machine>>

\* _find_free_port: bind to port 0, read the number, close the socket. The
\* kernel picks a port nobody is bound to at that moment.
RtFindPort(th, port) ==
  /\ pending[th].stage = "find_port"
  /\ port \notin DOMAIN machine.listeners
  /\ pending' = [pending EXCEPT ![th].stage = "popen", ![th].port = port]
  /\ UNCHANGED <<data, processes, now, lock, env, watched, result, played_log, disk,
                 held, machine>>

\* subprocess.Popen(cmd), processes[room_id] = proc
RtPopen(th) ==
  /\ pending[th].stage = "popen"
  /\ processes' = Put(processes, pending[th].room, pending[th].port)
  /\ machine' = [machine EXCEPT !.children =
                   Put(@, pending[th].room,
                       [port |-> pending[th].port, state |-> "starting"])]
  /\ pending' = [pending EXCEPT ![th].stage = "probe"]
  /\ UNCHANGED <<data, now, lock, env, watched, result, played_log, disk, held>>

\* The child of room_id binds the port of its --port argument and listens, or
\* fails to because the port is taken, and exits
ChildBind(room_id) ==
  /\ room_id \in DOMAIN machine.children
  /\ machine.children[room_id].state = "starting"
  /\ LET port == machine.children[room_id].port
     IN  machine' =
           IF port \in DOMAIN machine.listeners
           THEN [machine EXCEPT !.children[room_id].state = "exited"]
           ELSE [machine EXCEPT !.children[room_id].state = "listening",
                                !.listeners = Put(@, port, room_id)]
  /\ UNCHANGED <<data, processes, now, lock, pending, env, watched, result, played_log,
                 disk, held>>

\* A terminate that leaves the child running
Terminate_Spares(m, room_id) == m

\* proc.terminate() on a child that is still running
Terminate(m, room_id) ==
  IF room_id \in DOMAIN m.children /\ m.children[room_id].state # "exited"
  THEN [m EXCEPT !.children[room_id].state = "exited",
                 !.listeners = Pop(@, {p \in DOMAIN @ : @[p] = room_id})]
  ELSE m

\* _wait_port("127.0.0.1", port): a connection is accepted by whoever listens
\* on the port, and the call returns the port; or the 3 seconds pass without,
\* and stop_game_server(room_id) pops the handle and terminates the child
RtProbe(th) ==
  /\ pending[th].stage = "probe"
  /\ LET q == pending[th]
     IN  IF q.port \in DOMAIN machine.listeners
         THEN /\ pending' = [pending EXCEPT ![th].stage = "returned", ![th].ok = TRUE,
                                            ![th].msg = <<"game_server_started">>]
              /\ UNCHANGED <<processes, machine>>
         ELSE /\ pending' = [pending EXCEPT
                               ![th].stage = "returned",
                               ![th].msg =
                                 IF machine.children[q.room].state = "exited"
                                 THEN <<"spawn_failed">> ELSE <<"startup_timeout">>]
              /\ processes' = stop_game_server(processes, q.room)
              /\ machine' = Terminate(machine, q.room)
  /\ UNCHANGED <<data, now, lock, env, watched, result, played_log, disk, held>>

InitRuntime ==
  /\ data = PopulatedData
  /\ Boot([MAX_ROOMS |-> 0], {})

NextRuntime ==
  \/ \E th \in Threads, room_id \in RoomIds : RtCall(th, room_id)
  \/ \E th \in Threads : RtExists(th)
  \/ \E th \in Threads : RtMakedirs(th)
  \/ \E th \in Threads : RtExtractAll(th)
  \/ \E th \in Threads, found \in {"both", "no_manifest", "no_entry"} :
       RtManifest(th, found)
  \/ \E th \in Threads, port \in Ports : RtFindPort(th, port)
  \/ \E th \in Threads : RtPopen(th)
  \/ \E room_id \in RoomIds : ChildBind(room_id)
  \/ \E th \in Threads : RtProbe(th)

SpecRuntime == InitRuntime /\ [][NextRuntime]_vars

-----------------------------------------------------------------------------
\* start_room, statement by statement, next to the other store operations

\* db.update(_start) takes the lock; _start runs the GC pass and its checks
StartEnter(th, player, room_id) ==
  LET d == _cleanup_rooms(data, now)
      refusal == StartRefusal(d, room_id, player)
  IN  /\ CanAcquire
      /\ pending[th].stage = "idle"
      /\ lock' = th
      /\ data' = d
      /\ processes' = StopAll(processes, CleanupStops(data, now))
      /\ pending' = [pending EXCEPT ![th] =
                       [stage |-> IF refusal = None THEN "admitted" ELSE "ran",
                        player |-> player, room |-> room_id, refusal |-> refusal,
                        outcome |-> None, ok |-> FALSE, msg |-> refusal]]
      /\ UNCHANGED <<now, env, watched, result, played_log, disk, held, machine>>

\* What start_game_server finds in the extracted bundle
Bundles == {"no_manifest", "client_only", "missing_entry", "server"}

\* The outcome of start_game_server for a bundle without a child to spawn
Childless(bundle) == CHOOSE o \in StartOutcomes : o.kind = bundle

\* game_runtime.start_game_server, called from _start: _extract, the manifest,
\* and, for a bundle with a server_entry, _find_free_port, Popen and
\* processes[room_id] = proc. Without a child the call is over and _start runs
\* to its return.
StartSpawn(th, bundle, port) ==
  /\ pending[th].stage = "admitted"
  /\ LET q == pending[th]
         r == start_room(data, processes, q.room, q.player, now, Childless(bundle))
     IN  IF bundle = "server"
         THEN /\ port \notin DOMAIN machine.listeners
              /\ processes' = Put(processes, q.room, port)
              /\ machine' = [machine EXCEPT !.children =
                               Put(@, q.room, [port |-> port, state |-> "starting"])]
              /\ data' = data
              /\ pending' = [pending EXCEPT ![th].stage = "probing",
                                            ![th].outcome = [kind |-> "spawned", port |-> port]]
         ELSE /\ port = CHOOSE p \in Ports : TRUE
              /\ processes' = r.processes
              /\ machine' = machine
              /\ data' = r.data
              /\ pending' = [pending EXCEPT ![th].stage = "ran",
                                            ![th].outcome = Childless(bundle),
                                            ![th].ok = r.ok, ![th].msg = r.msg]
  /\ UNCHANGED <<now, lock, env, watched, result, played_log, disk, held>>

\* A probe that takes the spawn for the start
ProbeResult_TrustsSpawn(m, room_id) ==
  [kind |-> "ready", port |-> m.children[room_id].port]

\* How _wait_port and proc.poll() turn out for the child of room_id: a
\* connection to its port is accepted, or the child has exited, or neither
ProbeResult(m, room_id) ==
  LET port == m.children[room_id].port
  IN  IF port \in DOMAIN m.listeners THEN [kind |-> "ready", port |-> port]
      ELSE IF m.children[room_id].state = "exited" THEN [kind |-> "exited", port |-> port]
      ELSE [kind |-> "timeout", port |-> port]

\* The child of room_id exits of its own
ChildExit(room_id) ==
  /\ room_id \in DOMAIN machine.children
  /\ machine.children[room_id].state # "exited"
  /\ machine' = Terminate(machine, room_id)
  /\ UNCHANGED <<data, processes, now, lock, pending, env, watched, result, played_log,
                 disk, held>>

\* _wait_port returns (at once, or after its 3 seconds); on failure
\* stop_game_server pops the handle and terminates the child; then _start
\* runs to its return
StartProbe(th) ==
  /\ pending[th].stage = "probing"
  /\ LET q == pending[th]
         outcome == ProbeResult(machine, q.room)
         r == start_room(data, processes, q.room, q.player, now, outcome)
     IN  /\ processes' = r.processes
         /\ machine' = IF outcome.kind = "ready" THEN machine
                       ELSE Terminate(machine, q.room)
         /\ data' = r.data
         /\ pending' = [pending EXCEPT ![th].stage = "ran", ![th].outcome = outcome,
                                       ![th].ok = r.ok, ![th].msg = r.msg]
  /\ UNCHANGED <<now, lock, env, watched, result, played_log, disk, held>>

\* Database.update after the updater: self._write, return, lock released
StartFinish(th) ==
  /\ pending[th].stage = "ran"
  /\ disk' = _write(data)
  /\ lock' = NoThread
  /\ result' = ReplyTo("start_room", <<pending[th].room, pending[th].player>>,
                       pending[th].ok, pending[th].msg, TRUE)
  /\ pending' = [pending EXCEPT ![th] = Idle]
  /\ UNCHANGED <<data, processes, now, env, watched, played_log, held, machine>>

\* The stages of a start at which the supervisor is at work
InSupervisor == {"admitted", "probing"}

InitSupervise ==
  /\ data = PopulatedData
  /\ Boot([MAX_ROOMS |-> 0], {"start_room"})

NextSupervise ==
  \/ \E host \in Hosts : CreateRoom(host, "dice")
  \/ \E player \in Members, room_id \in RoomIds : JoinRoom(player, room_id)
  \/ \E player \in Members, room_id \in RoomIds : RoomHeartbeat(player, room_id)
  \/ \E player \in Members : Heartbeat("player", player)
  \/ ListRooms
  \/ \E th \in Threads, player \in Hosts, room_id \in RoomIds :
       StartEnter(th, player, room_id)
  \/ \E th \in Threads, bundle \in Bundles, port \in Ports : StartSpawn(th, bundle, port)
  \/ \E room_id \in RoomIds : ChildBind(room_id)
  \/ \E room_id \in RoomIds : ChildExit(room_id)
  \/ \E th \in Threads : StartProbe(th)
  \/ \E th \in Threads : StartFinish(th)

SpecSupervise == InitSupervise /\ [][NextSupervise]_vars

-----------------------------------------------------------------------------
\* The store and its file across crashes and restarts of the server

InitCrash ==
  /\ data = PopulatedData
  /\ Boot([MAX_ROOMS |-> 0], {"__init__"})

NextCrash ==
  \/ \E th \in Threads, host \in Callers, game_id \in GameIds :
       Up /\ UpdateEnter(th, host, game_id)
  \/ \E th \in Threads : UpdateFirst(th)
  \/ \E th \in Threads : UpdateSecond(th)
  \/ \E th \in Threads : WriteOpen(th)
  \/ \E th \in Threads : WriteDump(th)
  \/ \E th \in Threads : UpdateReturn(th)
  \/ Crash
  \/ Restart

SpecCrash == InitCrash /\ [][NextCrash]_vars

-----------------------------------------------------------------------------
\* Rooms in play across a restart of the server

InitRestart ==
  /\ data = PopulatedData
  /\ Boot([MAX_ROOMS |-> 0], {"__init__"})

\* The start, and an instant past the heartbeat timeout
LateInstants == {StartTick, StartTick + Sec(ROOM_HEARTBEAT_TIMEOUT) + 1}

NextRestart ==
  \/ TickWithin(LateInstants)
  \/ \E host \in Hosts : Up /\ CreateRoom(host, "dice")
  \/ \E player \in Members, room_id \in RoomIds : Up /\ JoinRoom(player, room_id)
  \/ Up /\ ListRooms
  \/ \E player \in Hosts, room_id \in RoomIds :
       Up /\ StartRoomWith(FewOutcomes, player, room_id)
  \/ Crash
  \/ Restart

SpecRestart == InitRestart /\ [][NextRestart]_vars

-----------------------------------------------------------------------------
\* game_manager.py: reset_rooms, and the id counters over creations, deletions
\* and ratings

\* A reset that also starts the room counter again
reset_rooms_Recount(d) ==
  Ret([d EXCEPT !.rooms = EmptyMap, !.next_ids.room = 1], TRUE, <<"rooms_reset">>,
      DOMAIN d.rooms)

\* _reset stops every room's game server and empties the room table; next_ids
\* is there already, so the setdefault calls change nothing
reset_rooms(d) ==
  Ret([d EXCEPT !.rooms = EmptyMap], TRUE, <<"rooms_reset">>, DOMAIN d.rooms)

ResetRooms ==
  /\ Update("reset_rooms", reset_rooms(data))
  /\ UNCHANGED played_log

\* One room more than the other specifications open
CreateRoomAgain(host, game_id) ==
  /\ data.next_ids.room <= MaxRoomId + 1
  /\ Update("create_room", create_room(data, host, game_id, now, env.MAX_ROOMS))
  /\ UNCHANGED played_log

\* The server of the ratings specification, a room in play
InitIds ==
  /\ data = RateStart.data
  /\ processes = RateStart.processes
  /\ now = StartTick
  /\ lock = NoThread
  /\ pending = [th \in Threads |-> Idle]
  /\ env = [MAX_ROOMS |-> 0]
  /\ watched = {"create_room", "reset_rooms", "add_rating"}
  /\ result = NoReply
  /\ played_log = {}
  /\ disk = _write(data)
  /\ held = [th \in Threads |-> Nothing]
  /\ machine = CleanMachine

NextIds ==
  \/ TickWithin(LateInstants \cup {StartTick + Sec(FINISHED_ROOM_GRACE_SECONDS) + 1})
  \/ \E host \in {"bob"}, game_id \in {"dice"} : CreateRoomAgain(host, game_id)
  \/ \E player \in {"bob"}, room_id \in RoomIds : CloseRoom(player, room_id)
  \/ ListRooms
  \/ ResetRooms
  \/ \E player \in {"bob", "carol"}, room_id \in RoomIds : MarkRoomPlayed(player, room_id)
  \/ \E player \in {"bob", "carol"}, game_id \in {"dice"}, score \in {5}, comment \in {"fun"} :
       AddRating(player, game_id, score, comment)

SpecIds == InitIds /\ [][NextIds]_vars

-----------------------------------------------------------------------------
\* server.py: the endpoints that carry a developer or player identity. Each
\* begins with auth.is_logged_in(user_type, username), answers 401 when that
\* is false, calls auth.heartbeat(user_type, username) and then the handler.

EndpointReply(d, procs, status, msg, flushed) ==
  [data |-> d, processes |-> procs, status |-> status, msg |-> msg, flushed |-> flushed]

\* The guard and the reply of an endpoint whose handler, run on the document
\* the heartbeat leaves, returns r and leaves the handle map `after`
Guarded(d, procs, user_type, username, t, r, after, success) ==
  LET passed == <<user_type, username>>
  IN  IF RaisesTypeError(passed, SessionParams)
      THEN EndpointReply(d, procs, 500, <<"TypeError">>, FALSE)
      ELSE IF ~is_logged_in(d, user_type, username, t).ok
      THEN EndpointReply(d, procs, 401, <<"login_required">>, FALSE)
      ELSE EndpointReply(r.data, after, IF r.ok THEN success ELSE 400, r.msg, TRUE)

Beaten(d, user_type, username, t) == heartbeat(d, user_type, username, t).data

create_room_endpoint(d, procs, player, game_id, t, max_rooms) ==
  LET r == create_room(Beaten(d, "player", player, t), player, game_id, t, max_rooms)
  IN  Guarded(d, procs, "player", player, t, r, StopAll(procs, r.stopped), 201)

join_room_endpoint(d, procs, player, room_id, t) ==
  LET r == join_room(Beaten(d, "player", player, t), player, room_id, t)
  IN  Guarded(d, procs, "player", player, t, r, StopAll(procs, r.stopped), 200)

leave_room_endpoint(d, procs, player, room_id, t) ==
  LET r == leave_room(Beaten(d, "player", player, t), player, room_id, t)
  IN  Guarded(d, procs, "player", player, t, r, StopAll(procs, r.stopped), 200)

start_room_endpoint(d, procs, player, room_id, t, outcome) ==
  LET r == start_room(Beaten(d, "player", player, t), procs, room_id, player, t, outcome)
  IN  Guarded(d, procs, "player", player, t, r, r.processes, 200)

close_room_endpoint(d, procs, player, room_id, t) ==
  LET r == close_room(Beaten(d, "player", player, t), room_id, player, t)
  IN  Guarded(d, procs, "player", player, t, r, StopAll(procs, r.stopped), 200)

add_rating_endpoint(d, procs, player, game_id, score, comment, t) ==
  LET r == add_rating(Beaten(d, "player", player, t), player, game_id, score, comment, t)
  IN  Guarded(d, procs, "player", player, t, r, procs, 200)

upload_game_endpoint(d, procs, dev, name, version, upload, game_type, t) ==
  LET r == create_game(Beaten(d, "developer", dev, t), dev, name, version, upload,
                       game_type, t)
  IN  Guarded(d, procs, "developer", dev, t, r, procs, 201)

update_game_endpoint(d, procs, dev, game_id, version, upload, t) ==
  LET r == update_game_version(Beaten(d, "developer", dev, t), dev, game_id, version,
                               upload, t)
  IN  Guarded(d, procs, "developer", dev, t, r, procs, 200)

remove_game_endpoint(d, procs, dev, game_id, t) ==
  LET r == remove_game(Beaten(d, "developer", dev, t), dev, game_id, t)
  IN  Guarded(d, procs, "developer", dev, t, r, StopAll(procs, r.stopped), 200)

\* A request to one of these endpoints
Served(op, args, r) ==
  /\ CanAcquire
  /\ data' = r.data
  /\ processes' = r.processes
  /\ disk' = IF r.flushed THEN _write(r.data) ELSE disk
  /\ result' = ReplyTo(op, args, r.status < 400, <<r.status>> \o r.msg, r.flushed)
  /\ UNCHANGED <<now, lock, pending, env, watched, played_log, held, machine>>

PostRooms(player, game_id) ==
  Served("create_room_endpoint", <<"player", player>>,
         create_room_endpoint(data, processes, player, game_id, now, env.MAX_ROOMS))

PostJoin(player, room_id) ==
  Served("join_room_endpoint", <<"player", player>>,
         join_room_endpoint(data, processes, player, room_id, now))

PostLeave(player, room_id) ==
  Served("leave_room_endpoint", <<"player", player>>,
         leave_room_endpoint(data, processes, player, room_id, now))

PostStart(player, room_id, outcome) ==
  Served("start_room_endpoint", <<"player", player>>,
         start_room_endpoint(data, processes, player, room_id, now, outcome))

PostClose(player, room_id) ==
  Served("close_room_endpoint", <<"player", player>>,
         close_room_endpoint(data, processes, player, room_id, now))

PostRatings(player, game_id, score, comment) ==
  Served("add_rating_endpoint", <<"player", player>>,
         add_rating_endpoint(data, processes, player, game_id, score, comment, now))

PostGames(dev, name, version, upload, game_type) ==
  Served("upload_game_endpoint", <<"developer", dev>>,
         upload_game_endpoint(data, processes, dev, name, version, upload, game_type, now))

PutGame(dev, game_id, version, upload) ==
  Served("update_game_endpoint", <<"developer", dev>>,
         update_game_endpoint(data, processes, dev, game_id, version, upload, now))

DeleteGame(dev, game_id) ==
  Served("remove_game_endpoint", <<"developer", dev>>,
         remove_game_endpoint(data, processes, dev, game_id, now))

IdentityEndpoints ==
  {"create_room_endpoint", "join_room_endpoint", "leave_room_endpoint",
   "start_room_endpoint", "close_room_endpoint", "add_rating_endpoint",
   "upload_game_endpoint", "update_game_endpoint", "remove_game_endpoint"}

\* Requests of registered and unregistered identities, logged in or not, on a
\* server whose catalogue holds Dice
InitEndpoints ==
  /\ data = PopulatedData
  /\ Boot([MAX_ROOMS |-> 0], IdentityEndpoints)

NextEndpoints ==
  \/ TickWithin(AuthInstants)
  \/ \E username \in {"alice"} : PostLogin("developer", username, "pw")
  \/ \E username \in {"bob", "carol"} : PostLogin("player", username, "pw")
  \/ \E player \in {"bob", "zed"}, game_id \in GameIds : PostRooms(player, game_id)
  \/ \E player \in {"bob", "zed"}, room_id \in RoomIds : PostJoin(player, room_id)
  \/ \E player \in {"bob", "zed"}, room_id \in RoomIds : PostLeave(player, room_id)
  \/ \E player \in {"bob", "zed"}, room_id \in RoomIds, outcome \in FewOutcomes :
       PostStart(player, room_id, outcome)
  \/ \E player \in {"bob", "zed"}, room_id \in RoomIds : PostClose(player, room_id)
  \/ \E player \in {"bob", "zed"}, game_id \in GameIds, score \in Scores,
        comment \in Comments : PostRatings(player, game_id, score, comment)
  \/ \E dev \in Developers, name \in GameNames, version \in Versions, upload \in Uploads,
        game_type \in GameTypes : PostGames(dev, name, version, upload, game_type)
  \/ \E dev \in Developers, game_id \in GameIds, version \in Versions, upload \in Uploads :
       PutGame(dev, game_id, version, upload)
  \/ \E dev \in Developers, game_id \in GameIds : DeleteGame(dev, game_id)

SpecEndpoints == InitEndpoints /\ [][NextEndpoints]_vars

-----------------------------------------------------------------------------
\* Claims

StatusOrder(a, b) ==
  \/ a = b
  \/ a = "waiting" /\ b \in {"in_game", "finished"}
  \/ a = "in_game" /\ b = "finished"

\* C1: in every step, a room that stays stored keeps its status or moves
\* waiting -> in_game, waiting -> finished or in_game -> finished (so finished
\* is final and in_game never goes back to waiting), a room that appears is
\* waiting, and an id that was issued and is gone does not come back.
C1_StatusTransitions ==
  [][/\ \A rid \in DOMAIN data.rooms \cap DOMAIN data'.rooms :
          StatusOrder(data.rooms[rid].status, data'.rooms[rid].status)
     /\ \A rid \in DOMAIN data'.rooms \ DOMAIN data.rooms :
          /\ rid >= data.next_ids.room
          /\ data'.rooms[rid].status = "waiting"]_vars

\* A room that went waiting -> in_game -> finished, created after an earlier
\* room was deleted
C1_Witness ==
  \E rid \in DOMAIN data.rooms :
    /\ rid > 1
    /\ data.rooms[rid].status = "finished"
    /\ data.rooms[rid].started_at # NoTime

\* C2: every stored room has a non-empty players list that starts with its host
C2_HostFirst ==
  \A rid \in DOMAIN data.rooms :
    /\ data.rooms[rid].players # <<>>
    /\ Head(data.rooms[rid].players) = data.rooms[rid].host

\* C2, as far as the code goes: a stored room has its host first in a non-empty
\* players list unless the room is finished because its host left it, and then
\* the host is not among its players
C2_HostFirstUnlessHostLeft ==
  \A rid \in DOMAIN data.rooms :
    LET room == data.rooms[rid]
    IN  \/ room.players # <<>> /\ Head(room.players) = room.host
        \/ /\ room.status = "finished"
           /\ room.ended_reason = <<"host_left", room.host>>
           /\ room.host \notin Range(room.players)

\* A finished room that its host left alone: nobody is in players
C2_Witness ==
  \E rid \in DOMAIN data.rooms :
    /\ data.rooms[rid].status = "finished"
    /\ data.rooms[rid].players = <<>>

\* C3: no room ever holds more players than its max_players
C3_RoomNeverOverfull ==
  \A rid \in DOMAIN data.rooms :
    Len(data.rooms[rid].players) <= data.rooms[rid].max_players

\* A full room and a join request for it that is being refused as full
C3_Witness ==
  \E rid \in DOMAIN data.rooms, th \in Threads :
    /\ Len(data.rooms[rid].players) = data.rooms[rid].max_players
    /\ pending[th].stage = "checked"
    /\ pending[th].room = rid
    /\ pending[th].refusal = <<"room_full">>

\* The step in which thread th returns from join_room
JoinReturns(th) == pending[th].stage = "checked" /\ pending'[th].stage = "idle"

\* C4: when join_room returns for a stored room (after its GC pass), it has
\* refused and left the document as it was if the room is not waiting (with the
\* stored ended_reason as message if it is finished), if the player is a member
\* already or if the room holds max_players members; otherwise, for a registered
\* player, it has put the player last in players and set the player's
\* heartbeat to now, and nothing else of the room has changed.
C4_JoinContract ==
  [][\A th \in Threads :
       (JoinReturns(th) /\ pending[th].room \in DOMAIN data.rooms) =>
         LET q == pending[th]
             room == data.rooms[q.room]
             after == data'.rooms[q.room]
         IN  IF \/ room.status # "waiting"
                \/ q.player \in Range(room.players)
                \/ Len(room.players) >= room.max_players
             THEN /\ q.refusal # None
                  /\ data' = data
                  /\ room.status = "finished" => q.refusal = room.ended_reason
             ELSE q.player \in DOMAIN data.players =>
                  /\ q.refusal = None
                  /\ after = [room EXCEPT
                                !.players = Append(room.players, q.player),
                                !.heartbeats = Put(room.heartbeats, q.player, now)]
    ]_vars

\* A player who joined second and whose heartbeat is the time of the join
C4_Witness ==
  \E rid \in DOMAIN data.rooms :
    /\ data.rooms[rid].status = "waiting"
    /\ Len(data.rooms[rid].players) = 2
    /\ data.rooms[rid].heartbeats[data.rooms[rid].players[2]] = now
    /\ data.rooms[rid].heartbeats[data.rooms[rid].host] < now
    /\ lock = NoThread

\* The rooms of game g whose successful mark_room_played calls had p as member
PlayedRooms(p, g) ==
  {e.room : e \in {x \in played_log : x.game_id = g /\ p \in x.members}}

\* The rooms whose played_counted flag is set in this step
NewlyCounted ==
  {rid \in DOMAIN data'.rooms :
     /\ data'.rooms[rid].played_counted
     /\ rid \in DOMAIN data.rooms
     /\ ~data.rooms[rid].played_counted}

\* C5: played_count(p, g) is always the number of distinct rooms of game g for
\* which mark_room_played succeeded while p was a member; and in every step the
\* counts move only for a room whose played_counted flag the step sets (so a
\* repeated mark of a counted room moves none), by exactly one for every player
\* then in that room, and a set flag stays set.
C5_PlayCounts ==
  /\ [](\A p \in Callers, g \in GameIds :
          played_count(data, p, g) = Cardinality(PlayedRooms(p, g)))
  /\ [][/\ \A rid \in DOMAIN data.rooms \cap DOMAIN data'.rooms :
            data.rooms[rid].played_counted => data'.rooms[rid].played_counted
        /\ \A p \in Callers, g \in GameIds :
            played_count(data', p, g) =
              played_count(data, p, g)
              + Cardinality({rid \in NewlyCounted :
                               /\ data.rooms[rid].game_id = g
                               /\ p \in Range(data.rooms[rid].players)})]_vars

\* After a successful mark_room_played, one player has been counted in two
\* rooms and another in one
C5_Witness ==
  /\ result.op = "mark_room_played"
  /\ result.ok
  /\ \E p, q \in PlayerNames :
       /\ played_count(data, p, "dice") = 2
       /\ played_count(data, q, "dice") = 1
       /\ Cardinality(PlayedRooms(p, "dice")) = 2

SameCounts(d, e) ==
  /\ \A p \in Callers, g \in GameIds : played_count(d, p, g) = played_count(e, p, g)
  /\ \A rid \in DOMAIN d.rooms \cap DOMAIN e.rooms :
       d.rooms[rid].played_counted = e.rooms[rid].played_counted

\* C6: in every reachable state, mark_room_played called for a room that does
\* not exist, for a room that is waiting or finished, or by a caller who is not
\* among the room's players returns failure, changes no play count and sets no
\* played_counted flag; and no request that was answered with a failure changed
\* a count or a flag.
C6_MarkRefused ==
  /\ [](\A player \in Callers, room_id \in RoomIds :
          LET r == mark_room_played(data, room_id, player, now)
          IN  (\/ room_id \notin DOMAIN data.rooms
               \/ data.rooms[room_id].status \in {"waiting", "finished"}
               \/ player \notin Range(data.rooms[room_id].players))
              => ~r.ok /\ SameCounts(data, r.data))
  /\ [][(result'.op = "mark_room_played" /\ ~result'.ok) => SameCounts(data, data')]_vars

\* A caller outside an uncounted room in play has just been refused
C6_Witness ==
  /\ result.op = "mark_room_played"
  /\ ~result.ok
  /\ result.msg = <<"not_in_room">>
  /\ \E rid \in DOMAIN data.rooms :
       data.rooms[rid].status = "in_game" /\ ~data.rooms[rid].played_counted

\* The ratings stored for this player and this game
RatingsOf(d, player, game_id) ==
  {id \in DOMAIN d.ratings :
     d.ratings[id].player = player /\ d.ratings[id].game_id = game_id}

\* C7: there is at most one rating per (player, game), every stored rating has
\* a score in 1..5 and a player whose played_count for the game is at least 1;
\* a submission with a valid score by a player who has a rating for the (active)
\* game succeeds, overwrites score, comment and timestamp of that record and
\* leaves the rating counter and the set of records alone; and a step adds a
\* record only under the next id, for a pair that had none, while
\* played_count >= 1.
C7_Ratings ==
  /\ [](/\ \A id \in DOMAIN data.ratings :
            /\ RatingsOf(data, data.ratings[id].player, data.ratings[id].game_id) = {id}
            /\ data.ratings[id].score \in 1 .. 5
            /\ played_count(data, data.ratings[id].player, data.ratings[id].game_id) >= 1
        /\ \A player \in Callers, game_id \in GameIds, score \in Scores,
             comment \in Comments, id \in DOMAIN data.ratings :
             (/\ id \in RatingsOf(data, player, game_id)
              /\ score \in 1 .. 5
              /\ data.games[game_id].active)
             => LET r == add_rating(data, player, game_id, score, comment, now)
                IN  /\ r.ok
                    /\ r.data = [data EXCEPT !.ratings[id].score = score,
                                              !.ratings[id].comment = comment,
                                              !.ratings[id].created_at = int(now)])
  /\ [][/\ DOMAIN data.ratings \subseteq DOMAIN data'.ratings
        /\ \A id \in DOMAIN data'.ratings \ DOMAIN data.ratings :
             /\ id = data.next_ids.rating
             /\ data'.next_ids.rating = id + 1
             /\ RatingsOf(data, data'.ratings[id].player, data'.ratings[id].game_id) = {}
             /\ played_count(data, data'.ratings[id].player, data'.ratings[id].game_id) >= 1
        /\ DOMAIN data'.ratings = DOMAIN data.ratings =>
             data'.next_ids.rating = data.next_ids.rating]_vars

\* Two players have rated, and one of the two records was overwritten in a
\* later second
C7_Witness ==
  /\ result.op = "add_rating"
  /\ result.msg = <<"rating_updated">>
  /\ Cardinality(DOMAIN data.ratings) = 2
  /\ \E id \in DOMAIN data.ratings :
       /\ data.ratings[id].created_at > int(StartTick)
       /\ data.ratings[id].comment = "fun"
       /\ data.ratings[id].score = 5

\* The session entry of this user, if there is one
HasSession(d, user_type, username) == username \in DOMAIN d.sessions[user_type]

\* C8: in every reachable state, is_logged_in leaves the document as it is and
\* writes nothing to disk, and returns true exactly when a session entry
\* exists for (role, username) with now - last_seen <= SESSION_TIMEOUT; and
\* every step that ends with the reply of an is_logged_in call has left the
\* document unchanged, without a write.
C8_IsLoggedInReadOnly ==
  /\ [](\A user_type \in Roles, username \in Usernames :
          LET r == is_logged_in(data, user_type, username, now)
          IN  /\ r.data = data
              /\ ~r.flushed
              /\ r.ok <=> /\ HasSession(data, user_type, username)
                           /\ now - data.sessions[user_type][username]
                                <= Sec(SESSION_TIMEOUT))
  /\ [][result'.op = "is_logged_in" => data' = data /\ ~result'.flushed]_vars

\* is_logged_in has just answered true for a session that is exactly
\* SESSION_TIMEOUT old
C8_Witness ==
  /\ result.op = "is_logged_in"
  /\ result.ok
  /\ ~result.flushed
  /\ \E user_type \in Roles, username \in Usernames :
       /\ result.args = <<user_type, username>>
       /\ HasSession(data, user_type, username)
       /\ now - data.sessions[user_type][username] = Sec(SESSION_TIMEOUT)

\* The user's password is the one given
Credentials(d, user_type, username, password) ==
  /\ username \in DOMAIN d[_get_table(user_type)]
  /\ d[_get_table(user_type)][username].password = password

\* C9: in every reachable state, login with the user's password fails with the
\* concurrent-login error and changes nothing when a session entry of the user
\* is less than CONCURRENT_LOGIN_LOCK old; otherwise it succeeds, sets the
\* session entry to now and online to true, and changes nothing else. And a
\* login that succeeds while the user has a session entry comes at least
\* CONCURRENT_LOGIN_LOCK after that entry's time (the last login or heartbeat).
C9_LoginLock ==
  /\ [](\A user_type \in Roles, username \in Usernames, password \in Passwords :
          Credentials(data, user_type, username, password) =>
            LET r == login(data, user_type, username, password, now)
                table == _get_table(user_type)
            IN  IF /\ HasSession(data, user_type, username)
                   /\ now - data.sessions[user_type][username]
                        < Sec(CONCURRENT_LOGIN_LOCK)
                THEN /\ ~r.ok
                     /\ r.msg = <<"concurrent_login">>
                     /\ r.data = data
                ELSE /\ r.ok
                     /\ r.data.sessions[user_type][username] = now
                     /\ r.data[table][username].online = TRUE
                     /\ r.data =
                          [data EXCEPT
                             !.sessions[user_type] = Put(@, username, now),
                             ![table][username] = Put(@, "online", TRUE)])
  /\ [][\A user_type \in Roles, username \in Usernames :
          (/\ result'.op = "login"
           /\ result'.ok
           /\ now' = now
           /\ SubSeq(result'.args, 1, 2) = <<user_type, username>>
           /\ HasSession(data, user_type, username))
          => now - data.sessions[user_type][username] >= Sec(CONCURRENT_LOGIN_LOCK)]_vars

\* A login with the right password has just been refused, one tick before the
\* lock of the user's session runs out
C9_Witness ==
  /\ result.op = "login"
  /\ ~result.ok
  /\ result.msg = <<"concurrent_login">>
  /\ \E user_type \in Roles, username \in Usernames :
       /\ SubSeq(result.args, 1, 2) = <<user_type, username>>
       /\ HasSession(data, user_type, username)
       /\ now - data.sessions[user_type][username] = Sec(CONCURRENT_LOGIN_LOCK) - 1

\* C10: in every reachable state, logout reports no error, removes the session
\* entry of (role, username), sets online to false if the user exists and
\* changes nothing else (so nothing at all for an unknown user); a second
\* logout changes nothing more; after it is_logged_in is false and a login with
\* the user's password succeeds, whatever the age of the session that was
\* dropped. And every step that ends with the reply of a logout call has done
\* to the document what logout does.
C10_LogoutIdempotent ==
  /\ [](\A user_type \in Roles, username \in Usernames, password \in Passwords :
          LET r == logout(data, user_type, username)
              table == _get_table(user_type)
              known == username \in DOMAIN data[table]
          IN  /\ r.ok
              /\ ~HasSession(r.data, user_type, username)
              /\ r.data =
                   [data EXCEPT
                      !.sessions[user_type] = Pop(@, {username}),
                      ![table] = IF known
                                 THEN [@ EXCEPT ![username] = Put(@, "online", FALSE)]
                                 ELSE @]
              /\ ~known => r.data = data
              /\ logout(r.data, user_type, username) = r
              /\ ~is_logged_in(r.data, user_type, username, now).ok
              /\ Credentials(data, user_type, username, password)
                   => login(r.data, user_type, username, password, now).ok)
  /\ [][result'.op = "logout" =>
          /\ result'.ok
          /\ data' = logout(data, result'.args[1], result'.args[2]).data]_vars

\* logout has just returned for a registered user, within the lock window of
\* the server's first instant: the session entry is gone and online is false
C10_Witness ==
  /\ result.op = "logout"
  /\ now < StartTick + Sec(CONCURRENT_LOGIN_LOCK)
  /\ \E user_type \in Roles, username \in Usernames :
       /\ result.args = <<user_type, username>>
       /\ username \in DOMAIN data[_get_table(user_type)]
       /\ data[_get_table(user_type)][username].online = FALSE
       /\ ~HasSession(data, user_type, username)

\* C11: heartbeat sets the session entry to now if there is one and otherwise
\* changes nothing; and a heartbeat endpoint called for a user for whom
\* is_logged_in is false answers 401 and leaves the session table as it is.
C11_HeartbeatFailsFast ==
  [][\A user_type \in Roles, username \in Usernames :
       /\ heartbeat(data, user_type, username, now).data =
            IF HasSession(data, user_type, username)
            THEN [data EXCEPT !.sessions[user_type][username] = now]
            ELSE data
       /\ (/\ result'.op = "heartbeat_endpoint"
           /\ result'.args = <<user_type, username>>
           /\ now' = now
           /\ ~is_logged_in(data, user_type, username, now).ok)
          => /\ result'.msg[1] = 401
             /\ data'.sessions = data.sessions]_vars

\* C11, as far as the code goes: heartbeat refreshes an entry that exists and
\* creates none; the heartbeat and logout endpoints answer 500 whoever calls
\* them and leave the document as it is, so no request to them creates,
\* refreshes or removes a session.
C11_HeartbeatEndpointInert ==
  /\ [](\A user_type \in Roles, username \in Usernames :
          /\ heartbeat(data, user_type, username, now).data =
               IF HasSession(data, user_type, username)
               THEN [data EXCEPT !.sessions[user_type][username] = now]
               ELSE data
          /\ heartbeat_endpoint(data, user_type, username, now) =
               HttpReply(data, 500, <<"TypeError">>, FALSE)
          /\ logout_endpoint(data, user_type, username) =
               HttpReply(data, 500, <<"TypeError">>, FALSE))
  /\ [][result'.op \in {"heartbeat_endpoint", "logout_endpoint"} =>
          data' = data /\ ~result'.ok]_vars

\* A heartbeat request of a user whose session is live has just been answered
\* with 500
C11_Witness ==
  /\ result.op = "heartbeat_endpoint"
  /\ result.msg = <<500, "TypeError">>
  /\ \E user_type \in Roles, username \in Usernames :
       /\ result.args = <<user_type, username>>
       /\ is_logged_in(data, user_type, username, now).ok
       /\ data.sessions[user_type][username] < now

\* C12: in every reachable state, leave_room by a member of a room that is not
\* finished (after the GC pass of the call) succeeds; if the room is waiting and
\* the leaver is not the host, the leaver is taken out of players and of the
\* heartbeat map and nothing else in the document changes; otherwise the room
\* becomes finished with ended_at = int(now) and a reason naming the leaver,
\* and the call stops the room's game server. No finished room has a handle in
\* the supervisor's map.
C12_LeaveRoom ==
  /\ \A player \in Callers, room_id \in RoomIds :
       LET d == _cleanup_rooms(data, now)
           r == leave_room(data, player, room_id, now)
       IN  (/\ room_id \in DOMAIN d.rooms
            /\ d.rooms[room_id].status # "finished"
            /\ player \in Range(d.rooms[room_id].players))
           => LET room == d.rooms[room_id]
                  after == r.data.rooms[room_id]
              IN  /\ r.ok
                  /\ IF room.status = "waiting" /\ player # room.host
                     THEN /\ r.data =
                               [d EXCEPT !.rooms[room_id] =
                                  [room EXCEPT
                                     !.players = Without(room.players, {player}),
                                     !.heartbeats = Pop(room.heartbeats, {player})]]
                          /\ after.status = "waiting"
                          /\ after.host = room.host
                          /\ room_id \notin r.stopped
                     ELSE /\ after.status = "finished"
                          /\ after.ended_at = int(now)
                          /\ after.ended_reason =
                               IF player = room.host THEN <<"host_left", player>>
                               ELSE <<"left", player>>
                          /\ room_id \in r.stopped
                          /\ room_id \notin DOMAIN StopAll(processes, r.stopped)
  /\ \A rid \in DOMAIN processes :
       rid \in DOMAIN data.rooms /\ data.rooms[rid].status = "in_game"

\* A guest left a room in play whose game server was up: the room is finished
\* with a reason naming the guest and its handle is gone
C12_Witness ==
  \E rid \in DOMAIN data.rooms :
    /\ data.rooms[rid].status = "finished"
    /\ data.rooms[rid].ended_reason \in
         {<<"left", p>> : p \in PlayerNames \ {data.rooms[rid].host}}
    /\ data.rooms[rid].game_server.port \in Ports
    /\ data.rooms[rid].players = <<data.rooms[rid].host>>
    /\ rid \notin DOMAIN processes

\* C13: in every reachable state and however the runtime behaves, start_room
\* for a stored room (after the GC pass of the call) succeeds only if the
\* caller is the host, the room is waiting and it has at least min_players
\* members; a success leaves the room in_game with started_at = int(now), a
\* game_server of host and port, every member's heartbeat at now and nothing
\* else changed; a start by somebody else, of a room that is not waiting or
\* below min_players fails, leaves the document as it was and the supervisor's
\* map without a new handle.
C13_StartRoom ==
  \A player \in Callers, room_id \in RoomIds, outcome \in StartOutcomes :
    LET d == _cleanup_rooms(data, now)
        procs == StopAll(processes, CleanupStops(data, now))
        r == start_room(data, processes, room_id, player, now, outcome)
    IN  room_id \in DOMAIN d.rooms =>
          LET room == d.rooms[room_id]
              allowed == /\ player = room.host
                         /\ room.status = "waiting"
                         /\ Len(room.players) >= room.min_players
          IN  /\ r.ok => allowed
              /\ r.ok =>
                   LET after == r.data.rooms[room_id]
                   IN  /\ after.status = "in_game"
                       /\ after.started_at = int(now)
                       /\ DOMAIN after.game_server = {"host", "port"}
                       /\ after.game_server # NoServer
                       /\ \A p \in Range(room.players) : after.heartbeats[p] = now
                       /\ r.data =
                            [d EXCEPT !.rooms[room_id] =
                               [room EXCEPT !.status = "in_game",
                                            !.started_at = after.started_at,
                                            !.game_server = after.game_server,
                                            !.heartbeats = after.heartbeats]]
              /\ ~allowed => ~r.ok /\ r.data = d /\ r.processes = procs

\* A room of two was started some time after it was opened: it is in play, its
\* members' heartbeats are the time of the start and its game server is up
C13_Witness ==
  \E rid \in DOMAIN data.rooms :
    /\ data.rooms[rid].status = "in_game"
    /\ Len(data.rooms[rid].players) = 2
    /\ data.rooms[rid].created_at < data.rooms[rid].started_at
    /\ data.rooms[rid].started_at = int(now)
    /\ \A p \in Range(data.rooms[rid].players) : data.rooms[rid].heartbeats[p] = now
    /\ rid \in DOMAIN processes
    /\ data.rooms[rid].game_server = [host |-> PublicHost, port |-> processes[rid]]

\* The ways the runtime supervisor fails, and the reasons it gives
RuntimeFailures ==
  {o \in StartOutcomes : o.kind \in {"no_manifest", "missing_entry", "exited", "timeout"}}

FailureReasons ==
  {<<"manifest_missing">>, <<"server_entry_missing">>, <<"spawn_failed">>,
   <<"startup_timeout">>}

\* C14: in every reachable state, when start_room passes its own checks and the
\* runtime supervisor fails (no manifest, server_entry missing, child exited,
\* readiness timeout), start_room fails with the supervisor's reason, the room
\* is as it was (waiting, no started_at, no game_server, same players) and the
\* supervisor's map holds no handle for the room; and every request that ends
\* with such a reply has left the document and the map as the GC pass at its
\* start made them.
C14_RuntimeFailure ==
  /\ [](\A player \in Callers, room_id \in RoomIds, outcome \in RuntimeFailures :
          LET d == _cleanup_rooms(data, now)
              procs == StopAll(processes, CleanupStops(data, now))
              r == start_room(data, processes, room_id, player, now, outcome)
          IN  StartRefusal(d, room_id, player) = None =>
                /\ ~r.ok
                /\ r.msg = start_game_server(procs, room_id, outcome).msg
                /\ r.msg \in FailureReasons
                /\ r.data = d
                /\ r.data.rooms[room_id].status = "waiting"
                /\ r.data.rooms[room_id].started_at = NoTime
                /\ r.data.rooms[room_id].game_server = NoServer
                /\ room_id \notin DOMAIN r.processes)
  /\ [][(now' = now /\ result'.op = "start_room" /\ result'.msg \in FailureReasons) =>
          /\ ~result'.ok
          /\ data' = _cleanup_rooms(data, now)
          /\ processes' = StopAll(processes, CleanupStops(data, now))]_vars

\* The start of a room of two has just failed on the readiness timeout: the
\* room waits as before and the map holds no handle for it
C14_Witness ==
  /\ result.op = "start_room"
  /\ ~result.ok
  /\ result.msg = <<"startup_timeout">>
  /\ \E rid \in DOMAIN data.rooms :
       /\ data.rooms[rid].status = "waiting"
       /\ Len(data.rooms[rid].players) = 2
       /\ data.rooms[rid].started_at = NoTime
       /\ data.rooms[rid].game_server = NoServer
       /\ rid \notin DOMAIN processes

\* C15: in every reachable state, close_room by a member of a room that is
\* waiting or in_game after the call's GC pass succeeds, makes the room finished
\* with ended_at the time of the call and a reason naming the closer, changes
\* nothing else of the room or of other rooms, and leaves no handle for the room
\* in the supervisor's map; close_room by a non-member, on a missing room or on
\* a finished room fails (with the stored reason when finished) and leaves the
\* document as the GC pass made it.
C15_CloseRoom ==
  \A player \in Callers, room_id \in RoomIds :
    LET d == _cleanup_rooms(data, now)
        r == close_room(data, room_id, player, now)
        procs == StopAll(processes, r.stopped)
        open == /\ room_id \in DOMAIN d.rooms
                /\ player \in Range(d.rooms[room_id].players)
                /\ d.rooms[room_id].status \in {"waiting", "in_game"}
    IN  /\ open =>
              /\ r.ok
              /\ r.data = [d EXCEPT !.rooms[room_id] =
                              [d.rooms[room_id] EXCEPT
                                 !.status = "finished",
                                 !.ended_at = int(now),
                                 !.ended_reason = <<"closed", player>>]]
              /\ room_id \notin DOMAIN procs
        /\ ~open =>
              /\ ~r.ok
              /\ r.data = d
              /\ procs = StopAll(processes, CleanupStops(data, now))
              /\ (room_id \in DOMAIN d.rooms /\ player \in Range(d.rooms[room_id].players))
                    => r.msg = d.rooms[room_id].ended_reason

\* A guest closed a room in play some time after it was opened: the room is
\* finished with the guest named as the closer, both members are still listed
\* and the game server of the room is gone
C15_Witness ==
  \E rid \in DOMAIN data.rooms :
    LET room == data.rooms[rid] IN
      /\ room.status = "finished"
      /\ room.started_at # NoTime
      /\ Len(room.ended_reason) = 2
      /\ room.ended_reason[1] = "closed"
      /\ room.ended_reason[2] # room.host
      /\ room.ended_reason[2] \in Range(room.players)
      /\ room.ended_at > room.created_at
      /\ rid \notin DOMAIN processes

\* C16: in every reachable state, room_heartbeat on a room that is missing after
\* the call's GC pass, by a caller who is not among its players, or on a
\* finished room fails (with the stored ended_reason when finished) and leaves
\* the document as the GC pass made it; otherwise it succeeds and changes only
\* heartbeats[player], which becomes the time of the call. A member of a room
\* that is not finished whose last heartbeat is older than
\* ROOM_HEARTBEAT_TIMEOUT is refused, and after the call the room is finished or
\* the caller is no longer one of its players.
C16_RoomHeartbeat ==
  \A player \in Callers, room_id \in RoomIds :
    LET d == _cleanup_rooms(data, now)
        r == room_heartbeat(data, room_id, player, now)
        refused == \/ room_id \notin DOMAIN d.rooms
                   \/ player \notin Range(d.rooms[room_id].players)
                   \/ d.rooms[room_id].status = "finished"
        late == /\ room_id \in DOMAIN data.rooms
                /\ data.rooms[room_id].status # "finished"
                /\ player \in Range(data.rooms[room_id].players)
                /\ now - Get(data.rooms[room_id].heartbeats, player,
                             data.rooms[room_id].created_at) > Sec(ROOM_HEARTBEAT_TIMEOUT)
    IN  /\ refused =>
              /\ ~r.ok
              /\ r.data = d
              /\ (room_id \in DOMAIN d.rooms /\ player \in Range(d.rooms[room_id].players))
                    => r.msg = d.rooms[room_id].ended_reason
        /\ ~refused =>
              /\ r.ok
              /\ r.data = [d EXCEPT !.rooms[room_id].heartbeats =
                              [q \in DOMAIN d.rooms[room_id].heartbeats \cup {player} |->
                                 IF q = player THEN now
                                 ELSE d.rooms[room_id].heartbeats[q]]]
        /\ late =>
              /\ ~r.ok
              /\ room_id \in DOMAIN r.data.rooms
              /\ \/ r.data.rooms[room_id].status = "finished"
                 \/ player \notin Range(r.data.rooms[room_id].players)
              /\ Get(r.data.rooms[room_id].heartbeats, player, NoTime) # now

\* The members of a waiting room of two sent heartbeats at different times after
\* the room was opened: the heartbeat map holds the two times
C16_Witness ==
  \E rid \in DOMAIN data.rooms :
    LET room == data.rooms[rid] IN
      /\ room.status = "waiting"
      /\ Len(room.players) = 2
      /\ DOMAIN room.heartbeats = Range(room.players)
      /\ room.heartbeats[room.host] >= room.created_at + Sec(1)
      /\ \E p \in Range(room.players) : room.heartbeats[p] > room.heartbeats[room.host]

\* The rooms a GC pass at time t would neither delete nor finish for a host
\* that timed out
CountedAfterGC(d, t) ==
  {rid \in DOMAIN d.rooms :
     /\ ~GraceExpired(d.rooms[rid], t)
     /\ ~(d.rooms[rid].status = "waiting" /\ CleanRoom(d.rooms[rid], t).status = "finished")}

\* C17 (as stated): every create_room that is refused for the room cap found at
\* least MAX_ROOMS rooms that a GC pass at the time of the call would neither
\* delete (finished, grace expired) nor finish for a timed-out host.
C17_CapIgnoresDeadRooms ==
  [][(now' = now /\ result'.op = "create_room" /\ result'.msg = <<"room_cap">>) =>
       Cardinality(CountedAfterGC(data, now)) >= env.MAX_ROOMS]_vars

\* C17 (what holds): in every reachable state, join_room, leave_room, close_room,
\* start_room, room_heartbeat, mark_room_played, list_rooms and get_room leave a
\* document on which a further GC pass at the same time changes nothing and
\* that differs from the GC-passed document only in the room addressed; while
\* create_room runs no GC pass: it compares the number of all stored rooms with
\* MAX_ROOMS and leaves every stored room as it was.
C17_GCFirstExceptCreate ==
  /\ \A player \in Callers, room_id \in RoomIds :
       LET d == _cleanup_rooms(data, now)
           settled(r) == /\ _cleanup_rooms(r.data, now) = r.data
                         /\ DOMAIN r.data.rooms = DOMAIN d.rooms
                         /\ \A rid \in DOMAIN d.rooms \ {room_id} :
                              r.data.rooms[rid] = d.rooms[rid]
       IN  /\ settled(join_room(data, player, room_id, now))
           /\ settled(leave_room(data, player, room_id, now))
           /\ settled(close_room(data, room_id, player, now))
           /\ settled(room_heartbeat(data, room_id, player, now))
           /\ settled(mark_room_played(data, room_id, player, now))
           /\ settled(get_room(data, room_id, now))
           /\ settled(list_rooms(data, now))
           /\ \A outcome \in StartOutcomes :
                settled(start_room(data, processes, room_id, player, now, outcome))
  /\ \A host \in Callers, game_id \in GameIds :
       LET r == create_room(data, host, game_id, now, env.MAX_ROOMS)
       IN  /\ \A rid \in DOMAIN data.rooms :
                rid \in DOMAIN r.data.rooms /\ r.data.rooms[rid] = data.rooms[rid]
           /\ r.msg = <<"room_cap">> <=>
                /\ game_id \in DOMAIN data.games
                /\ data.games[game_id].active
                /\ Get(data.games[game_id], "accept_new_rooms", TRUE)
                /\ host \in DOMAIN data.players
                /\ Cardinality(DOMAIN data.rooms) >= env.MAX_ROOMS

\* create_room has just been refused for the room cap while the only stored
\* room is finished and past its grace period
C17_Witness ==
  /\ result.op = "create_room"
  /\ result.msg = <<"room_cap">>
  /\ DOMAIN data.rooms # {}
  /\ \A rid \in DOMAIN data.rooms : GraceExpired(data.rooms[rid], now)

\* The members of a room whose last heartbeat (the creation time when they
\* never sent one) is more than ROOM_HEARTBEAT_TIMEOUT before t
StaleMembers(room, t) ==
  {p \in Range(room.players) :
     t - Get(room.heartbeats, p, room.created_at) > Sec(ROOM_HEARTBEAT_TIMEOUT)}

\* C18: in every reachable state, a GC pass at the current time does this to
\* each stored room that is not finished. Only members have heartbeat entries.
\* Waiting, host stale: finished at the time of the pass with a reason naming
\* the host, players kept. Waiting, host not stale: still waiting, with exactly
\* the stale members taken out of players and of the heartbeat map. In play,
\* some member stale: finished with a reason naming the stale members, players
\* kept. In play, nobody stale: unchanged. And room_heartbeat by a guest of a
\* waiting room whose host is stale fails with the reason naming the host.
C18_StaleMembers ==
  \A rid \in DOMAIN data.rooms :
    LET room == data.rooms[rid]
        stale == StaleMembers(room, now)
        d == _cleanup_rooms(data, now)
    IN  room.status # "finished" =>
          /\ DOMAIN room.heartbeats = Range(room.players)
          /\ rid \in DOMAIN d.rooms
          /\ (room.status = "waiting" /\ room.host \in stale) =>
                /\ d.rooms[rid] = [room EXCEPT !.status = "finished",
                                               !.ended_at = int(now),
                                               !.ended_reason = <<"host_timeout", room.host>>]
                /\ \A guest \in Range(room.players) \ {room.host} :
                     LET r == room_heartbeat(data, rid, guest, now)
                     IN  ~r.ok /\ r.msg = <<"host_timeout", room.host>> /\ r.data = d
          /\ (room.status = "waiting" /\ room.host \notin stale) =>
                d.rooms[rid] =
                  [room EXCEPT !.players = SelectSeq(room.players, LAMBDA p : p \notin stale),
                               !.heartbeats = [p \in Range(room.players) \ stale |->
                                                 room.heartbeats[p]]]
          /\ (room.status = "in_game" /\ stale # {}) =>
                /\ d.rooms[rid].status = "finished"
                /\ d.rooms[rid].ended_at = int(now)
                /\ d.rooms[rid].players = room.players
                /\ Len(d.rooms[rid].ended_reason) = 1 + Cardinality(stale)
                /\ d.rooms[rid].ended_reason[1] = "players_timeout"
                /\ Range(Tail(d.rooms[rid].ended_reason)) = stale
          /\ (room.status = "in_game" /\ stale = {}) => d.rooms[rid] = room

\* A waiting room of two was finished because its host stopped sending
\* heartbeats; the guest, whose own heartbeat is fresh, is still listed
C18_Witness ==
  \E rid \in DOMAIN data.rooms :
    LET room == data.rooms[rid] IN
      /\ room.status = "finished"
      /\ room.started_at = NoTime
      /\ room.ended_reason = <<"host_timeout", room.host>>
      /\ \E guest \in Range(room.players) \ {room.host} :
           /\ room.heartbeats[guest] > room.heartbeats[room.host]
           /\ ~Stale(room.heartbeats[guest], now)

\* C19: in every reachable state, a stored finished room with now - ended_at <=
\* FINISHED_ROOM_GRACE_SECONDS survives a GC pass unchanged and get_room returns
\* it as finished with its ended_reason; one with now - ended_at >
\* FINISHED_ROOM_GRACE_SECONDS is deleted by the pass (its child is stopped) and
\* get_room finds no room. list_rooms returns no finished room, and every member
\* of every room it returns has a heartbeat no older than
\* ROOM_HEARTBEAT_TIMEOUT.
C19_GraceAndListing ==
  /\ \A rid \in DOMAIN data.rooms :
       LET room == data.rooms[rid]
           d == _cleanup_rooms(data, now)
           g == get_room(data, rid, now)
       IN  room.status = "finished" =>
             /\ now - room.ended_at <= Sec(FINISHED_ROOM_GRACE_SECONDS) =>
                   /\ rid \in DOMAIN d.rooms
                   /\ d.rooms[rid] = room
                   /\ g.ok
                   /\ g.msg = <<"room", "finished">> \o room.ended_reason
                   /\ g.data = d
             /\ now - room.ended_at > Sec(FINISHED_ROOM_GRACE_SECONDS) =>
                   /\ rid \notin DOMAIN d.rooms
                   /\ rid \in CleanupStops(data, now)
                   /\ ~g.ok
                   /\ rid \notin DOMAIN g.data.rooms
                   /\ rid \notin DOMAIN list_rooms(data, now).data.rooms
  /\ LET l == list_rooms(data, now)
     IN  /\ l.msg[1] = "rooms"
         /\ l.msg[2] \subseteq DOMAIN l.data.rooms
         /\ \A rid \in l.msg[2] :
              /\ l.data.rooms[rid].status \in {"waiting", "in_game"}
              /\ \A p \in Range(l.data.rooms[rid].players) :
                   /\ p \in DOMAIN l.data.rooms[rid].heartbeats
                   /\ now - l.data.rooms[rid].heartbeats[p] <= Sec(ROOM_HEARTBEAT_TIMEOUT)

\* The first room was deleted by a GC pass after its grace period; the second,
\* finished later, is still stored
C19_Witness ==
  /\ 1 \notin DOMAIN data.rooms
  /\ 2 \in DOMAIN data.rooms
  /\ data.rooms[2].status = "finished"
  /\ now - data.rooms[2].ended_at <= Sec(FINISHED_ROOM_GRACE_SECONDS)

\* The game record after a delisting at time t
Delisted(game, t) ==
  [k \in DOMAIN game \cup {"active", "accept_new_rooms", "deactivated_at"} |->
     IF k \in {"active", "accept_new_rooms"} THEN FALSE
     ELSE IF k = "deactivated_at" THEN int(t)
     ELSE game[k]]

\* The outcome of a handler, without the catalogue
RoomOutcome(r) == [ok |-> r.ok, msg |-> r.msg, rooms |-> r.data.rooms]

\* C20: in every reachable state, remove_game by the game's developer succeeds,
\* sets active and accept_new_rooms to false and stamps deactivated_at, changes
\* nothing else of the document (rooms, versions, other games) and stops no
\* child; its reply carries the number of stored rooms of the game that are not
\* finished when that number is not zero, and no number when it is zero;
\* remove_game by anyone else, or of a missing game, fails and changes nothing.
\* For a game that is inactive, create_room is refused for every host, and
\* join_room and start_room on its rooms do exactly what they would do if the
\* game were active. And in every step, a game that is inactive stays stored
\* and inactive.
C20_RemoveGame ==
  /\ [](/\ \A developer \in Developers, game_id \in GameIds :
            LET r == remove_game(data, developer, game_id, now)
                owner == /\ game_id \in DOMAIN data.games
                         /\ data.games[game_id].developer = developer
                n == Cardinality({rid \in DOMAIN data.rooms :
                                    /\ data.rooms[rid].game_id = game_id
                                    /\ data.rooms[rid].status \in {"waiting", "in_game"}})
            IN  /\ owner =>
                      /\ r.ok
                      /\ r.data = [data EXCEPT !.games[game_id] =
                                      Delisted(data.games[game_id], now)]
                      /\ r.data.games[game_id].versions = data.games[game_id].versions
                      /\ r.data.rooms = data.rooms
                      /\ r.stopped = {}
                      /\ r.msg = IF n > 0 THEN <<"delisted", n>> ELSE <<"delisted">>
                      /\ \A host \in Callers :
                           ~create_room(r.data, host, game_id, now, env.MAX_ROOMS).ok
                /\ ~owner => ~r.ok /\ r.data = data /\ r.stopped = {}
        /\ \A game_id \in DOMAIN data.games :
            LET relisted == [data EXCEPT !.games[game_id].active = TRUE]
            IN  ~data.games[game_id].active =>
                  /\ \A host \in Callers :
                       LET r == create_room(data, host, game_id, now, env.MAX_ROOMS)
                       IN  ~r.ok /\ r.msg = <<"game_missing_or_inactive">> /\ r.data = data
                  /\ \A player \in Callers, room_id \in RoomIds :
                       (room_id \in DOMAIN data.rooms /\ data.rooms[room_id].game_id = game_id)
                         => /\ RoomOutcome(join_room(data, player, room_id, now))
                                 = RoomOutcome(join_room(relisted, player, room_id, now))
                            /\ \A outcome \in StartOutcomes :
                                 LET here == start_room(data, processes, room_id, player,
                                                        now, outcome)
                                     there == start_room(relisted, processes, room_id,
                                                         player, now, outcome)
                                 IN  /\ RoomOutcome(here) = RoomOutcome(there)
                                     /\ here.processes = there.processes)
  /\ [][\A game_id \in DOMAIN data.games :
          ~data.games[game_id].active =>
            /\ game_id \in DOMAIN data'.games
            /\ ~data'.games[game_id].active
            /\ data'.games[game_id].versions = data.games[game_id].versions]_vars

\* A room of two of a delisted game has just been started: it is in play and its
\* game server is up
C20_Witness ==
  /\ result.op = "start_room"
  /\ result.ok
  /\ \E rid \in DOMAIN data.rooms :
       /\ data.rooms[rid].status = "in_game"
       /\ Len(data.rooms[rid].players) = 2
       /\ ~data.games[data.rooms[rid].game_id].active
       /\ ~data.games[data.rooms[rid].game_id].accept_new_rooms
       /\ rid \in DOMAIN processes

\* The version strings of a game, in the order of its version list
VersionStrings(game) == [i \in DOMAIN game.versions |-> game.versions[i].version]

\* C21: in every reachable state, update_game_version with a bundle that passed
\* validation fails and leaves the document unchanged when the game is missing,
\* the caller is not its developer, the game is inactive, the bundle's
\* min_players or max_players differ from the game's, or the game already has
\* the version string; otherwise it succeeds, appends one record with that
\* version string, makes it latest_version and changes nothing else. In every
\* reachable state the version strings of a game are pairwise different and
\* latest_version is the string of the last record; and in every step a stored
\* game stays stored with its min_players and max_players, and its version
\* list only grows at the end.
C21_UpdateGameVersion ==
  /\ [](/\ \A developer \in Developers, game_id \in GameIds, version \in Versions,
              upload \in {u \in Uploads : u.ok} :
            LET r == update_game_version(data, developer, game_id, version, upload, now)
                rejected ==
                  \/ game_id \notin DOMAIN data.games
                  \/ data.games[game_id].developer # developer
                  \/ ~data.games[game_id].active
                  \/ upload.min_players # data.games[game_id].min_players
                  \/ upload.max_players # data.games[game_id].max_players
                  \/ \E i \in DOMAIN data.games[game_id].versions :
                       data.games[game_id].versions[i].version = version
            IN  /\ rejected => ~r.ok /\ r.data = data
                /\ ~rejected =>
                      /\ r.ok
                      /\ Len(r.data.games[game_id].versions)
                           = Len(data.games[game_id].versions) + 1
                      /\ SubSeq(r.data.games[game_id].versions, 1,
                                Len(data.games[game_id].versions))
                           = data.games[game_id].versions
                      /\ r.data.games[game_id].versions[Len(r.data.games[game_id].versions)].version
                           = version
                      /\ r.data.games[game_id].latest_version = version
                      /\ r.data = [data EXCEPT
                                     !.games[game_id].versions = r.data.games[game_id].versions,
                                     !.games[game_id].latest_version = version]
        /\ \A game_id \in DOMAIN data.games :
            LET game == data.games[game_id]
            IN  /\ \A i, j \in DOMAIN game.versions :
                     game.versions[i].version = game.versions[j].version => i = j
                /\ game.versions # <<>>
                /\ game.latest_version = game.versions[Len(game.versions)].version)
  /\ [][\A game_id \in DOMAIN data.games :
          /\ game_id \in DOMAIN data'.games
          /\ data'.games[game_id].min_players = data.games[game_id].min_players
          /\ data'.games[game_id].max_players = data.games[game_id].max_players
          /\ Len(data'.games[game_id].versions) >= Len(data.games[game_id].versions)
          /\ SubSeq(data'.games[game_id].versions, 1, Len(data.games[game_id].versions))
               = data.games[game_id].versions]_vars

\* A second version of a game has just been published after the first: the
\* game has two version records and the new one is the latest
C21_Witness ==
  /\ result.op = "update_game_version"
  /\ result.ok
  /\ \E game_id \in DOMAIN data.games :
       /\ Len(data.games[game_id].versions) = 2
       /\ data.games[game_id].latest_version = data.games[game_id].versions[2].version
       /\ data.games[game_id].versions[2].uploaded_at
            > data.games[game_id].versions[1].uploaded_at

\* A document in which no create_room is half done: the stored rooms are those
\* with the ids handed out so far
Whole(d) == DOMAIN d.rooms = 1 .. (d.next_ids.room - 1)

\* C22: in every reachable state of the store under concurrent updates and
\* snapshots: while no update is in progress the file holds the document; no
\* snapshot that its holder has not written into shows a half-done update. In
\* every step: the document changes only in a step of the thread that holds
\* the lock; an update that returns has left the document and the file as its
\* updater, applied to the document found on entry, leaves them, and returns
\* the updater's value; a snapshot equals the document at the time it is
\* taken; and a write into a snapshot changes neither the document nor the
\* file nor what another thread holds.
C22_StoreSemantics ==
  /\ [](/\ lock = NoThread => disk = _write(data)
        /\ \A th \in Threads :
             (held[th] # Nothing /\ ~held[th].touched) => Whole(Deref(held[th])))
  /\ [][/\ data' # data =>
            /\ lock \in Threads
            /\ lock' = lock
            /\ pending'[lock] # pending[lock]
            /\ \A th \in Threads \ {lock} : pending'[th] = pending[th]
        /\ \A th \in Threads :
             /\ (pending[th].stage = "written" /\ pending'[th].stage = "idle") =>
                   LET q == pending[th]
                       r == create_room(q.before, q.host, q.game_id, now, env.MAX_ROOMS)
                   IN  /\ data' = r.data
                       /\ disk' = _write(r.data)
                       /\ result' = Response("create_room", r.ok, r.msg)
                       /\ result'.flushed
             /\ (held[th] = Nothing /\ held'[th] # Nothing) =>
                   /\ Deref(held'[th]) = data
                   /\ data' = data
             /\ (held[th] # Nothing /\ held'[th] # Nothing /\ held'[th] # held[th]) =>
                   /\ data' = data
                   /\ disk' = disk
                   /\ \A other \in Threads \ {th} :
                        /\ held'[other] = held[other]
                        /\ held[other] # Nothing
                             => Deref(held[other])' = Deref(held[other])]_vars

\* One thread has written into its snapshot, taken after the first room was
\* created, while another holds an untouched snapshot and the store goes on:
\* the document has its two rooms and the file holds it
C22_Witness ==
  /\ lock = NoThread
  /\ data.next_ids.room = 3
  /\ disk = _write(data)
  /\ \E th, other \in Threads :
       /\ held[th] # Nothing
       /\ held[th].touched
       /\ Deref(held[th]).next_ids.room = 0
       /\ DOMAIN Deref(held[th]).rooms = {1}
       /\ held[other] # Nothing
       /\ ~held[other].touched
       /\ Deref(held[other]) = data

\* C23 (as stated): whenever the server process is down, whatever it was doing
\* when it stopped, the file holds a whole document, and every restart loads
\* one.
C23_FlushSurvivesCrash ==
  [][/\ (Up /\ ~Up') => disk'.complete
     /\ (~Up /\ result'.op = "__init__") => (result'.ok /\ Up')]_vars

\* C23 (what holds): a server that stops while no thread is between the open
\* and the close of _write leaves a whole document in the file, the one of the
\* last update that got through _write; a restart loads exactly the file when
\* it is whole and fails when it is not; and while the server is up and no
\* update is in progress the file holds the document.
C23_CrashOutsideWrite ==
  /\ []((Up /\ lock = NoThread) => disk = _write(data))
  /\ [][/\ (Up /\ ~Up' /\ \A th \in Threads : pending[th].stage # "dumping") =>
            disk'.complete
        /\ (Up /\ ~Up' /\ \E th \in Threads : pending[th].stage = "dumping") =>
            ~disk'.complete
        /\ (~Up /\ result'.op = "__init__") =>
            /\ result'.ok = disk.complete
            /\ disk.complete => data' = disk.document
            /\ ~disk.complete => ~Up'
            /\ disk' = disk]_vars

\* The server stopped in the middle of _write and was started again: the file
\* is cut short, json.load raised, and no server is up
C23_Witness ==
  /\ ~Up
  /\ ~disk.complete
  /\ result.op = "__init__"
  /\ ~result.ok
  /\ result.msg = <<"JSONDecodeError">>

\* C24 (as stated): what a room handler returned to an endpoint is a copy:
\* whatever the other request threads do to the store afterwards, the endpoint
\* reads through the value exactly what the handler returned.
C24_ReturnsAreCopies ==
  \A th \in Threads :
    held[th] # Nothing =>
      \A rid \in DOMAIN held[th].refs :
        SeenThrough(held[th].refs[rid], rid, data) = held[th].returned[rid]

ScalarFields ==
  {"id", "game_id", "version", "host", "max_players", "min_players", "status",
   "created_at", "ended_reason", "ended_at", "started_at", "game_server",
   "played_counted", "played_counted_at"}

\* C24 (what holds): a handler that returns None leaves the endpoint nothing
\* to read, and of a dict(room) the endpoint reads every field but players
\* and heartbeats as it was returned, whatever happens to the stored room.
C24_ShallowCopies ==
  \A th \in Threads :
    held[th] # Nothing =>
      \A rid \in DOMAIN held[th].refs :
        held[th].refs[rid].mode = "shallow" =>
          \A f \in ScalarFields :
            SeenThrough(held[th].refs[rid], rid, data)[f] = held[th].returned[rid][f]

\* Thread 1 holds the room create_room returned, with its host as the only
\* player, and has not built its reply yet; meanwhile another request has
\* joined the room, and the held value shows two players
C24_Witness ==
  /\ held[1] # Nothing
  /\ held[1].op = "create_room"
  /\ \E rid \in DOMAIN held[1].refs :
       /\ Len(held[1].returned[rid].players) = 1
       /\ Len(SeenThrough(held[1].refs[rid], rid, data).players) = 2

\* C25 (as stated): while start_room is in the supervisor (extracting and
\* spawning, or waiting in the readiness probe) the store lock is free, so
\* that the other store operations can go ahead.
C25_SpawnOutsideLock ==
  \A th \in Threads : pending[th].stage \in InSupervisor => CanAcquire

\* C25 (what holds): the supervisor runs with the store lock held by the
\* starting thread, from the checks of _start to the write of the file, and
\* until the start is over no other store operation takes a step: every step
\* taken meanwhile is the starting thread's own or a child process's, which
\* touches neither the store nor the handle map.
C25_SpawnUnderLock ==
  /\ [](\A th \in Threads : pending[th].stage \in InSupervisor => lock = th)
  /\ [][\A th \in Threads :
          pending[th].stage \in InSupervisor =>
            /\ pending'[th].stage \in {"admitted", "probing", "ran"}
            /\ \A o \in Threads \ {th} : pending'[o] = pending[o]
            /\ result' = result
            /\ disk' = disk
            /\ pending'[th] = pending[th] =>
                 (data' = data /\ processes' = processes /\ lock' = lock)]_vars

\* A start is waiting in the readiness probe with its child spawned; the lock
\* is the starting thread's, and a room heartbeat or a listing has to wait
C25_Witness ==
  \E th \in Threads :
    /\ pending[th].stage = "probing"
    /\ pending[th].room \in DOMAIN processes
    /\ lock = th
    /\ ~CanAcquire

\* A start of room_id by player that _start would admit
Startable(room_id, player) ==
  StartRefusal(_cleanup_rooms(data, now), room_id, player) = None

\* C26 (as stated): while one room's start is in the supervisor, a start
\* request for another room that is ready to start can go ahead at once, on
\* another thread, without waiting for the first to finish.
C26_StartsNotSerialized ==
  \A th \in Threads, o \in Threads, player \in Hosts, room_id \in RoomIds :
    (/\ th # o
     /\ pending[th].stage \in InSupervisor
     /\ pending[th].room # room_id
     /\ pending[o].stage = "idle"
     /\ Startable(room_id, player))
    => ENABLED StartEnter(o, player, room_id)

\* C26 (what holds): starts are serialized by the store lock: at most one
\* request is anywhere between the entry of db.update(_start) and its return,
\* and the handle map changes only in steps of the thread that holds the lock.
C26_StartsSerialized ==
  /\ [](\A th \in Threads, o \in Threads :
          (pending[th].stage # "idle" /\ pending[o].stage # "idle") => th = o)
  /\ [][processes' # processes =>
          \E th \in Threads :
            /\ lock' = th
            /\ pending'[th].stage \in {"admitted", "probing", "ran"}
            /\ \A o \in Threads \ {th} : pending'[o] = pending[o]]_vars

\* Room 1 is in the readiness probe on one thread while room 2 is waiting
\* with enough players for its host to start it, and the other thread is idle
C26_Witness ==
  \E th \in Threads, o \in Threads, player \in Hosts :
    /\ th # o
    /\ pending[th].stage = "probing"
    /\ pending[th].room = 1
    /\ pending[o].stage = "idle"
    /\ Startable(2, player)
    /\ ~ENABLED StartEnter(o, player, 2)

\* A thread that has called start_game_server
Called(th) == pending[th].stage # "idle"

\* C27 (as stated): of two start_game_server calls for two rooms of the same
\* game and version, however they overlap, each finds the bundle completely
\* extracted when it looks for the manifest, and if both return success they
\* return different ports.
C27_ConcurrentStarts ==
  \A th \in Threads :
    Called(th) =>
      /\ pending[th].saw \in {"nothing", "complete"}
      /\ \A o \in Threads :
           (th # o /\ Called(o) /\ pending[th].ok /\ pending[o].ok)
           => pending[th].port # pending[o].port

\* C27 (what holds): the same of a call during which no other call ran; and
\* whatever the overlap, the directory, once complete, stays complete, and no
\* two children listen on one port.
C27_StartsOneByOne ==
  /\ [](\A th \in Threads :
          Called(th) /\ pending[th].alone =>
            /\ pending[th].saw \in {"nothing", "complete"}
            /\ \A o \in Threads :
                 (th # o /\ Called(o) /\ pending[th].ok /\ pending[o].ok)
                 => pending[th].port # pending[o].port)
  /\ [][machine.extracted = "complete" => machine'.extracted = "complete"]_vars
  /\ [](\A r1 \in DOMAIN machine.children, r2 \in DOMAIN machine.children :
          (/\ r1 # r2
           /\ machine.children[r1].state = "listening"
           /\ machine.children[r2].state = "listening")
          => machine.children[r1].port # machine.children[r2].port)

\* Both calls have returned success with the same port: the second got the
\* number before the first child had bound it, its own child could not bind
\* and exited, and its probe was answered by the first room's child
C27_Witness ==
  /\ \A th \in Threads : pending[th].stage = "returned" /\ pending[th].ok
  /\ pending[1].port = pending[2].port
  /\ \E room_id \in DOMAIN machine.children : machine.children[room_id].state = "exited"

\* A room that is stored and not finished
Live(d, rid) == rid \in DOMAIN d.rooms /\ d.rooms[rid].status # "finished"

\* C28: the handle map has entries only for stored rooms that are in play
\* (none for a finished, a deleted or a waiting room), its entries are one per
\* room id, every step in which a room becomes finished or is deleted leaves
\* the map without an entry for it, and stop_game_server on a room without an
\* entry changes nothing.
C28_HandlesReleased ==
  /\ [](\A rid \in DOMAIN processes : Live(data, rid) /\ data.rooms[rid].status = "in_game")
  /\ [](\A rid \in RoomIds \ DOMAIN processes :
          stop_game_server(processes, rid) = processes)
  /\ [][\A rid \in RoomIds :
          (Live(data, rid) /\ ~Live(data', rid)) => rid \notin DOMAIN processes']_vars
  /\ [][\A rid \in DOMAIN processes \cap DOMAIN processes' :
          processes'[rid] = processes[rid]]_vars

\* A room that was started with a child of its own has been finished by the
\* GC pass for a member's timeout, and its handle is gone
C28_Witness ==
  \E rid \in DOMAIN data.rooms :
    /\ data.rooms[rid].status = "finished"
    /\ data.rooms[rid].ended_reason # None
    /\ Head(data.rooms[rid].ended_reason) = "players_timeout"
    /\ data.rooms[rid].game_server.port \in Ports
    /\ rid \notin DOMAIN processes

\* A room's game_server is an address the supervisor assigned
RuntimeAssigned(room) == room.game_server \notin {NoServer, PlatformServer}

\* C29: a room in play has a runtime-assigned game_server exactly if it has a
\* handle, and then the address is the public host with the port its child was
\* started on; a room enters play either from a start whose bundle has no
\* server_entry, without a running child and with the platform's own address, or from
\* a start whose probe was answered on the port while the room's own child
\* was listening on it.
C29_GameServer ==
  /\ [](\A rid \in DOMAIN data.rooms :
          data.rooms[rid].status = "in_game" =>
            /\ data.rooms[rid].game_server # NoServer
            /\ RuntimeAssigned(data.rooms[rid]) <=> rid \in DOMAIN processes
            /\ rid \in DOMAIN processes =>
                 /\ data.rooms[rid].game_server =
                      [host |-> PublicHost, port |-> processes[rid]]
                 /\ rid \in DOMAIN machine.children
                 /\ machine.children[rid].port = processes[rid])
  /\ [][\A rid \in DOMAIN data'.rooms :
          (data'.rooms[rid].status = "in_game" /\ data.rooms[rid].status # "in_game") =>
            \E th \in Threads :
              /\ pending[th].stage \in InSupervisor
              /\ pending[th].room = rid
              /\ IF pending[th].stage = "probing"
                 THEN /\ RuntimeAssigned(data'.rooms[rid])
                      /\ data'.rooms[rid].game_server.port \in DOMAIN machine.listeners
                      /\ machine.listeners[data'.rooms[rid].game_server.port] = rid
                      /\ machine.children[rid].state = "listening"
                 ELSE /\ pending'[th].outcome.kind = "client_only"
                      /\ data'.rooms[rid].game_server = PlatformServer
                      /\ rid \notin DOMAIN processes'
                      /\ rid \in DOMAIN machine'.children =>
                           machine'.children[rid].state = "exited"]_vars

\* Two rooms in play side by side: one started from a bundle without a
\* server_entry, at the platform's address and without a handle; the other at
\* the public host and the port of its handle; no start is in progress
C29_Witness ==
  \E r1 \in DOMAIN data.rooms, r2 \in DOMAIN data.rooms :
    /\ data.rooms[r1].status = "in_game"
    /\ data.rooms[r1].game_server = PlatformServer
    /\ r1 \notin DOMAIN processes
    /\ data.rooms[r2].status = "in_game"
    /\ RuntimeAssigned(data.rooms[r2])
    /\ r2 \in DOMAIN processes
    /\ \A th \in Threads : pending[th].stage = "idle"

\* C30 (as stated): whenever the server is up, a room in play at a
\* runtime-assigned address has a handle in the map; in particular a restart
\* leaves no such room in play.
C30_StartupPass ==
  Up => \A rid \in DOMAIN data.rooms :
          (data.rooms[rid].status = "in_game" /\ RuntimeAssigned(data.rooms[rid]))
          => rid \in DOMAIN processes

\* C30 (what holds): a restart loads the document as the file has it, rooms in
\* play included, into a server whose handle map is empty, and does nothing
\* else; and a handle is only ever held for a stored room in play.
C30_RestartReloads ==
  /\ [][(~Up /\ Up') =>
          /\ data' = disk.document
          /\ processes' = EmptyMap
          /\ disk' = disk
          /\ machine' = machine]_vars
  /\ [](Up => \A rid \in DOMAIN processes :
                 rid \in DOMAIN data.rooms /\ data.rooms[rid].status = "in_game")

\* The server has been restarted and is up: a room is in play at the port of
\* a child the former process had spawned, and the handle map is empty
C30_Witness ==
  /\ Up
  /\ result.op = "__init__"
  /\ result.ok
  /\ processes = EmptyMap
  /\ \E rid \in DOMAIN data.rooms :
       /\ data.rooms[rid].status = "in_game"
       /\ RuntimeAssigned(data.rooms[rid])

\* C31: every endpoint that carries a developer or player identity, called for
\* an identity for which is_logged_in is false, answers 401 and changes neither
\* the document, nor the file, nor the supervisor's handle map.
C31_Unauthorized401 ==
  [][\A user_type \in Roles, username \in Developers \cup Callers :
       (/\ result'.op \in IdentityEndpoints
        /\ result'.args = <<user_type, username>>
        /\ now' = now
        /\ ~is_logged_in(data, user_type, username, now).ok)
       => /\ result'.msg[1] = 401
          /\ data' = data /\ disk' = disk /\ processes' = processes]_vars

\* C31, as far as the code goes: a request to such an endpoint changes neither
\* the document, nor the file, nor the handle map whoever sends it, because the
\* call of is_logged_in raises TypeError and the request is answered with 500.
C31_EndpointsInert ==
  [][result'.op \in IdentityEndpoints /\ now' = now
       => /\ result'.msg = <<500, "TypeError">>
          /\ data' = data /\ disk' = disk /\ processes' = processes]_vars

\* A request to create a room, sent for a player who has no session, has just
\* been answered with 500 instead of 401
C31_Witness ==
  /\ result.op = "create_room_endpoint"
  /\ result.args = <<"player", "zed">>
  /\ result.msg[1] = 500
  /\ ~is_logged_in(data, "player", "zed", now).ok
  /\ is_logged_in(data, "player", "bob", now).ok

\* C32: for every role and username, while a session entry exists its
\* last_seen never decreases, whatever logins, heartbeats, logouts and lookups
\* are called in whatever order; login and heartbeat store the time of the call.
C32_LastSeenMonotone ==
  [][\A user_type \in Roles, username \in Usernames :
       /\ (HasSession(data, user_type, username) /\ HasSession(data', user_type, username))
          => data'.sessions[user_type][username] >= data.sessions[user_type][username]
       /\ (/\ result'.op \in {"login", "heartbeat"}
           /\ result'.args[1] = user_type /\ result'.args[2] = username
           /\ result'.ok /\ now' = now
           /\ HasSession(data', user_type, username)
           /\ data'.sessions # data.sessions)
          => data'.sessions[user_type][username] = now]_vars

\* A heartbeat has just moved a session's last_seen forward, within the login
\* lock of the login that created it
C32_Witness ==
  /\ result.op = "heartbeat"
  /\ \E user_type \in Roles, username \in Usernames :
       /\ result.args = <<user_type, username>>
       /\ HasSession(data, user_type, username)
       /\ data.sessions[user_type][username] = now
       /\ now = StartTick + Sec(CONCURRENT_LOGIN_LOCK) - 1

\* The stored rooms that are waiting or in_game
LiveRooms(d) == {rid \in DOMAIN d.rooms : d.rooms[rid].status \in {"waiting", "in_game"}}

\* create_room passes every check that comes before the cap
Creatable(d, host, game_id) ==
  /\ game_id \in DOMAIN d.games
  /\ d.games[game_id].active
  /\ Get(d.games[game_id], "accept_new_rooms", TRUE)
  /\ host \in DOMAIN d.players

\* C33 (as stated): in every reachable state, with MAX_ROOMS = N > 0,
\* create_room for an existing player and an active game accepting rooms is
\* refused exactly when at least N rooms are waiting or in_game.
C33_CapCountsLiveRooms ==
  \A host \in Callers, game_id \in GameIds :
    (env.MAX_ROOMS > 0 /\ Creatable(data, host, game_id))
    => (create_room(data, host, game_id, now, env.MAX_ROOMS).ok = FALSE
        <=> Cardinality(LiveRooms(data)) >= env.MAX_ROOMS)

\* C33 (what holds): in every reachable state, with MAX_ROOMS = N > 0 such a
\* create_room is refused exactly when at least N rooms are stored, whatever
\* their status; the number of stored rooms, and so of rooms waiting or
\* in_game, never exceeds N; and with MAX_ROOMS = 0 the same call succeeds.
C33_CapCountsStoredRooms ==
  /\ env.MAX_ROOMS > 0
  /\ Cardinality(LiveRooms(data)) <= Cardinality(DOMAIN data.rooms)
  /\ Cardinality(DOMAIN data.rooms) <= env.MAX_ROOMS
  /\ \A host \in Callers, game_id \in GameIds :
       Creatable(data, host, game_id)
       => /\ create_room(data, host, game_id, now, env.MAX_ROOMS).ok = FALSE
             <=> Cardinality(DOMAIN data.rooms) >= env.MAX_ROOMS
          /\ create_room(data, host, game_id, now, 0).ok

\* create_room has just been refused for the cap while no room is waiting or
\* in_game: the one stored room is finished and within its grace period
C33_Witness ==
  /\ result.op = "create_room"
  /\ result.msg = <<"room_cap">>
  /\ LiveRooms(data) = {}
  /\ \E rid \in DOMAIN data.rooms : ~GraceExpired(data.rooms[rid], now)

\* C34: in every reachable state every stored room and rating has an id below
\* its counter; and across create_room, GC deletions, reset_rooms and
\* add_rating, next_ids.room and next_ids.rating never decrease, a room or
\* rating that is added gets the counter's value as its id and moves the
\* counter past it, so that every id issued is greater than every id issued
\* before and the id of a deleted room is never given to a new one.
C34_CountersOnlyIncrease ==
  /\ [](/\ \A rid \in DOMAIN data.rooms :
             rid < data.next_ids.room /\ data.rooms[rid].id = rid
        /\ \A rating_id \in DOMAIN data.ratings :
             rating_id < data.next_ids.rating /\ data.ratings[rating_id].id = rating_id)
  /\ [][/\ data'.next_ids.room >= data.next_ids.room
        /\ data'.next_ids.rating >= data.next_ids.rating
        /\ \A rid \in DOMAIN data'.rooms \ DOMAIN data.rooms :
             rid = data.next_ids.room /\ data'.next_ids.room = rid + 1
        /\ \A rating_id \in DOMAIN data'.ratings \ DOMAIN data.ratings :
             rating_id = data.next_ids.rating /\ data'.next_ids.rating = rating_id + 1
        /\ (result'.op = "create_room" /\ result'.ok /\ now' = now)
           => DOMAIN data'.rooms \ DOMAIN data.rooms # {}]_vars

\* A room has just been created after the first room was deleted, by the GC
\* pass or by reset_rooms, and after a rating was stored
C34_Witness ==
  /\ result.op = "create_room"
  /\ result.ok
  /\ 1 \notin DOMAIN data.rooms
  /\ data.next_ids.room - 1 \in DOMAIN data.rooms
  /\ data.ratings # EmptyMap

\* C35: when the probe of a start returns, the call succeeds exactly if a
\* connection to the assigned port was accepted, and then the room's handle is
\* in the map and the room gets the public host and that port; if nobody
\* listens on the port and the child has exited the call fails with the
\* exit-code message; if nobody listens and the child is alive the call fails
\* with the timeout message and the child is terminated; after either failure
\* the map holds no handle for the room and the room stays waiting. A start
\* that spawned no child leaves no handle.
C35_StartOutcomes ==
  [][\A th \in Threads :
       /\ (pending[th].stage = "probing" /\ pending'[th].stage = "ran") =>
            LET rid == pending[th].room
                child == machine.children[rid]
                reachable == child.port \in DOMAIN machine.listeners
            IN  /\ pending'[th].ok <=> reachable
                /\ reachable =>
                     /\ pending'[th].msg = <<"game_started">>
                     /\ rid \in DOMAIN processes' /\ processes'[rid] = child.port
                     /\ data'.rooms[rid].game_server =
                          [host |-> PublicHost, port |-> child.port]
                     /\ machine' = machine
                /\ ~reachable =>
                     /\ pending'[th].msg = IF child.state = "exited"
                                           THEN <<"spawn_failed">>
                                           ELSE <<"startup_timeout">>
                     /\ machine'.children[rid].state = "exited"
                     /\ rid \notin DOMAIN processes'
                     /\ data'.rooms[rid] = data.rooms[rid]
                     /\ data.rooms[rid].status = "waiting"
       /\ (pending[th].stage = "admitted" /\ pending'[th].stage = "ran") =>
            /\ pending[th].room \notin DOMAIN processes'
            /\ ~RuntimeAssigned(data'.rooms[pending[th].room])]_vars

\* A start has just failed with the timeout message: its child was running
\* without listening, was terminated, and the room has no handle
C35_Witness ==
  \E th \in Threads :
    /\ pending[th].stage = "ran"
    /\ pending[th].outcome # None
    /\ pending[th].outcome.kind = "timeout"
    /\ pending[th].msg = <<"startup_timeout">>
    /\ machine.children[pending[th].room].state = "exited"
    /\ pending[th].room \notin DOMAIN processes

\* C36: a room that is created gets the latest_version its game has at that
\* moment, and no later step, update_game_version included, changes the
\* version or the game of a stored room; in every reachable state the version
\* of every stored room is the version of a record of its game, and what
\* start_room hands to the supervisor is that record and that version,
\* whatever the game's latest_version has become.
C36_VersionPinned ==
  /\ [](\A rid \in DOMAIN data.rooms :
          /\ data.rooms[rid].game_id \in DOMAIN data.games
          /\ version_rec(data, rid) # None
          /\ Launched(data, rid).record.version = data.rooms[rid].version
          /\ Launched(data, rid).version = data.rooms[rid].version
          /\ Launched(data, rid).game_id = data.rooms[rid].game_id
          /\ \E i \in DOMAIN data.games[data.rooms[rid].game_id].versions :
               data.games[data.rooms[rid].game_id].versions[i].version =
                 data.games[data.rooms[rid].game_id].latest_version)
  /\ [][\A rid \in DOMAIN data'.rooms :
          IF rid \in DOMAIN data.rooms
          THEN /\ data'.rooms[rid].version = data.rooms[rid].version
               /\ data'.rooms[rid].game_id = data.rooms[rid].game_id
          ELSE data'.rooms[rid].version =
                 data.games[data'.rooms[rid].game_id].latest_version]_vars

\* A room has just been started whose game got a new version after the room
\* was created: the room is in play at the version it was created for
C36_Witness ==
  /\ result.op = "start_room"
  /\ result.ok
  /\ \E rid \in DOMAIN data.rooms :
       /\ data.rooms[rid].status = "in_game"
       /\ data.rooms[rid].version = "1.0.0"
       /\ data.games[data.rooms[rid].game_id].latest_version = "1.1.0"
       /\ Launched(data, rid).version = "1.0.0"

\* C37: in every reachable state, for every room that is waiting or in_game,
\* the keys of its heartbeat map are exactly its players; the members the GC
\* pass finds stale, which it reads off the heartbeat map, are exactly the
\* players whose last heartbeat is too old; and the room the pass leaves, if it
\* is still waiting or in_game, has that property again.
C37_HeartbeatKeys ==
  \A rid \in DOMAIN data.rooms :
    LET room == data.rooms[rid]
        after == CleanRoom(room, now)
    IN  room.status \in {"waiting", "in_game"} =>
          /\ DOMAIN room.heartbeats = Range(room.players)
          /\ {p \in DOMAIN room.heartbeats : Stale(room.heartbeats[p], now)} =
               {p \in Range(room.players) : Stale(room.heartbeats[p], now)}
          /\ after.status \in {"waiting", "in_game"} =>
               /\ DOMAIN after.heartbeats = Range(after.players)
               /\ \A p \in Range(after.players) : ~Stale(after.heartbeats[p], now)

\* A waiting room whose guest the GC pass is about to remove, from the list of
\* players and from the heartbeat map, while the host stays
C37_Witness ==
  \E rid \in DOMAIN data.rooms :
    LET room == data.rooms[rid]
        after == CleanRoom(room, now)
    IN  /\ room.status = "waiting"
        /\ Len(room.players) = 2
        /\ after.status = "waiting"
        /\ after.players = <<room.host>>
        /\ DOMAIN after.heartbeats = {room.host}

\* A session entry whose last_seen is more than SESSION_TIMEOUT before t
Expired(d, user_type, username, t) ==
  /\ HasSession(d, user_type, username)
  /\ t - d.sessions[user_type][username] > Sec(SESSION_TIMEOUT)

RoomsOf(d, player) == {rid \in LiveRooms(d) : player \in Range(d.rooms[rid].players)}

\* C39 (as stated): in every reachable state a player is a member of at most
\* one room that is waiting or in_game.
C39_OneRoomPerPlayer ==
  \A player \in Callers : Cardinality(RoomsOf(data, player)) <= 1

\* C39 (what holds): in every reachable state a player is listed at most once
\* in each stored room; join_room into a waiting room of an existing game by
\* a registered player succeeds exactly if the player is not in that room and
\* the room has a place left, and create_room by a registered player for an
\* active game accepting rooms succeeds exactly if the cap allows, in both
\* cases whatever other rooms the player is a member of.
C39_OncePerRoom ==
  /\ \A rid \in DOMAIN data.rooms :
       Cardinality(Range(data.rooms[rid].players)) = Len(data.rooms[rid].players)
  /\ \A player \in Callers, rid \in RoomIds :
       LET d == _cleanup_rooms(data, now)
       IN  (/\ rid \in DOMAIN d.rooms
            /\ d.rooms[rid].status = "waiting"
            /\ d.rooms[rid].game_id \in DOMAIN d.games
            /\ player \in DOMAIN d.players)
           => (join_room(data, player, rid, now).ok
               <=> /\ player \notin Range(d.rooms[rid].players)
                   /\ Len(d.rooms[rid].players) < d.games[d.rooms[rid].game_id].max_players)
  /\ \A host \in Callers, game_id \in GameIds :
       Creatable(data, host, game_id)
       => (create_room(data, host, game_id, now, env.MAX_ROOMS).ok
           <=> ~(env.MAX_ROOMS > 0 /\ Cardinality(DOMAIN data.rooms) >= env.MAX_ROOMS))

\* A player hosts one waiting room and has joined another as a guest
C39_Witness ==
  \E player \in Callers, r1 \in DOMAIN data.rooms, r2 \in DOMAIN data.rooms :
    /\ r1 # r2
    /\ {r1, r2} \subseteq RoomsOf(data, player)
    /\ data.rooms[r1].host = player
    /\ data.rooms[r2].host # player

\* C40: in every reachable state a stored room has an ended_at and an
\* ended_reason exactly if it is finished; and no step changes the status,
\* the ended_at or the ended_reason of a room that is finished and stays
\* stored: the calls of leave_room, close_room, room_heartbeat and start_room
\* for it are refused with the stored reason, and the GC pass skips it.
C40_EndStampedOnce ==
  /\ [](\A rid \in DOMAIN data.rooms :
          LET room == data.rooms[rid]
          IN  /\ room.status = "finished" <=> room.ended_at # NoTime
              /\ room.status = "finished" <=> room.ended_reason # None
              /\ room.status = "finished" =>
                   /\ \A player \in Range(room.players), outcome \in StartOutcomes :
                        /\ ~GraceExpired(room, now) =>
                             /\ leave_room(data, player, rid, now).msg = room.ended_reason
                             /\ close_room(data, rid, player, now).msg = room.ended_reason
                             /\ room_heartbeat(data, rid, player, now).msg = room.ended_reason
                             /\ start_room(data, processes, rid, player, now, outcome).msg =
                                  room.ended_reason
                   /\ ~GraceExpired(room, now) =>
                        /\ get_room(data, rid, now).data.rooms[rid] = room
                        /\ _cleanup_rooms(data, now).rooms[rid] = room)
  /\ [][\A rid \in DOMAIN data.rooms \cap DOMAIN data'.rooms :
          data.rooms[rid].status = "finished" =>
            /\ data'.rooms[rid].status = "finished"
            /\ data'.rooms[rid].ended_at = data.rooms[rid].ended_at
            /\ data'.rooms[rid].ended_reason = data.rooms[rid].ended_reason]_vars

\* A room that was in play and ended some time ago is still stored, and a
\* member who closes it now is refused with the reason it ended for
C40_Witness ==
  \E rid \in DOMAIN data.rooms :
    LET room == data.rooms[rid] IN
      /\ room.status = "finished"
      /\ room.started_at # NoTime
      /\ room.ended_at < int(now)
      /\ ~GraceExpired(room, now)
      /\ \E player \in Range(room.players) :
           LET r == close_room(data, rid, player, now)
           IN  ~r.ok /\ r.msg = room.ended_reason /\ r.data.rooms[rid] = room

====
